---- MODULE Spec2Model ----
(***************************************************************************)
(* A model of the roast2d simulation core: the entity store (ecs/world.rs), *)
(* the broad-phase roster and sweep (collision.rs), the resolver            *)
(* (collision.rs, physics.rs), the tile tracer (trace.rs), the insertion    *)
(* sort (sorts.rs) and the command queue with its dispatcher                *)
(* (roast2d_physics/entities.rs).                                           *)
(*                                                                          *)
(* Numbers.  f32 coordinates, sizes, velocities and masses are modelled as  *)
(* integers counted in sub-units: Unit sub-units make 1.0.  A quotient that *)
(* the code computes in f32 is computed exactly as a fraction and rounded   *)
(* toward zero to the sub-unit grid only where it is stored.                *)
(***************************************************************************)
EXTENDS Integers, Sequences, FiniteSets, TLC

\* ------------------------------------------------------------------ bounds

\* Sub-units per 1.0 (the resolution of the fixed-point grid).
Unit == 2
\* Number of entity handles the store can hand out in one behaviour.
NumEnts == 3
\* Number of entities user code spawns between frames.
MaxSpawns == 2
\* Number of commands after which user code between frames requests no more.
MaxQueue == 1
\* Number of frames a behaviour runs.
MaxFrames == 2

\* --------------------------------------------------------------- constants

\* usize::MAX, the sort key of an entity without a Transform (cut to TLC's
\* integer range; every coordinate of the model is far below it).
UsizeMax == 2147483647
\* ENTITY_MIN_BOUNCE_VELOCITY = 10.0, in whole units.
ENTITY_MIN_BOUNCE_VELOCITY == 10
\* EntPhysics::MOVE and the EntCollidesMode bits.
MOVE == 1
CM_WORLD == 2
CM_LITE == 16
CM_PASSIVE == 32
CM_ACTIVE == 64
CM_FIXED == 128
\* u8::MAX, where saturating_add stops.
U8Max == 255
\* f32::MAX, above every overlap of the scenes
F32_MAX == 1000000

\* ----------------------------------------------------------------- helpers

Abs(x) == IF x < 0 THEN -x ELSE x
Max(a, b) == IF a >= b THEN a ELSE b
Min(a, b) == IF a <= b THEN a ELSE b
\* a / b rounded toward zero, b > 0 (an `as i32` cast of a quotient).
TruncDiv(a, b) == IF a >= 0 THEN a \div b ELSE -((-a) \div b)
\* ceil(a / b), b > 0.
CeilDiv(a, b) == IF a >= 0 THEN (a + b - 1) \div b ELSE -((-a) \div b)

Ents == 1..NumEnts

\* EntPhysics levels as bit patterns (physics.rs).
P_NONE == 0
P_MOVE == MOVE
P_WORLD == MOVE + CM_WORLD
P_LITE == P_WORLD + CM_LITE
P_PASSIVE == P_WORLD + CM_PASSIVE
P_ACTIVE == P_WORLD + CM_ACTIVE
P_FIXED == P_WORLD + CM_FIXED
Levels == {P_NONE, P_MOVE, P_WORLD, P_LITE, P_PASSIVE, P_ACTIVE, P_FIXED}

\* bits & mask for u8 values.
RECURSIVE BitAndFrom(_, _, _)
BitAndFrom(a, b, bit) ==
    IF bit > CM_FIXED THEN 0
    ELSE (IF (a \div bit) % 2 = 1 /\ (b \div bit) % 2 = 1 THEN bit ELSE 0)
         + BitAndFrom(a, b, 2 * bit)
BitAnd(a, b) == BitAndFrom(a, b, 1)

\* EntPhysics::is_at_least
is_at_least(self, physics) == self >= physics
\* EntPhysics::is_collide_mode
is_collide_mode(self, mode) == BitAnd(self, mode) # 0
\* bitflags contains
contains(self, flags) == BitAnd(self, flags) = flags
\* u8::saturating_add
saturating_add(a, b) == IF a + b > U8Max THEN U8Max ELSE a + b

\* ---------------------------------------------------------------- geometry

Vec2(x, y) == [x |-> x, y |-> y]
VAdd(a, b) == Vec2(a.x + b.x, a.y + b.y)
VSub(a, b) == Vec2(a.x - b.x, a.y - b.y)
VZero == Vec2(0, 0)

\* SweepAxis::get
sweep_axis_get(axis, pos) == IF axis = "X" THEN pos.x ELSE pos.y

\* Angles are counted in quarter turns: 0, 1 = 90 deg, 2 = 180 deg, -1, -2.
\* Only these right angles are modelled.
RightAngles == {-2, -1, 0, 1, 2}

\* is_right_angle
is_right_angle(angle) == angle = 0 \/ Abs(angle) = 2 \/ Abs(angle) = 1

\* A calc_bounds that takes every right angle for a half turn.
calc_bounds_unturned(pos, half_size, angle) ==
    [min |-> VSub(pos, half_size), max |-> VAdd(pos, half_size)]

\* calc_bounds, its two right-angle branches.
calc_bounds(pos, half_size, angle) ==
    IF angle = 0 \/ Abs(angle) = 2
    THEN [min |-> VSub(pos, half_size), max |-> VAdd(pos, half_size)]
    ELSE LET hs == Vec2(half_size.y, half_size.x)
         IN  [min |-> VSub(pos, hs), max |-> VAdd(pos, hs)]

\* Transform::scaled_size
scaled_size(t) == Vec2(t.size.x * t.scale.x, t.size.y * t.scale.y)
\* size * 0.5
half_of(v) == Vec2(TruncDiv(v.x, 2), TruncDiv(v.y, 2))
\* Transform::bounds
bounds(t) == calc_bounds(t.pos, half_of(scaled_size(t)), t.angle)

\* The closed-interval AABB test behind Rect::is_touching.
is_touching(b1, b2) ==
    ~(b1.min.x > b2.max.x \/ b1.max.x < b2.min.x
      \/ b1.min.y > b2.max.y \/ b1.max.y < b2.min.y)

NoOverlap == [some |-> FALSE, v |-> VZero]
SomeOverlap(v) == [some |-> TRUE, v |-> v]

\* One axis of the right-angle branch of calc_overlap.
axis_overlap(min1, max1, min2, max2) ==
    IF min1 < min2 THEN max1 - min2
    ELSE IF max2 > min1 THEN -(max2 - min1)
    ELSE 0

\* calc_overlap on shapes [pos, angle, half_size], right angles only.
calc_overlap(s1, s2) ==
    LET b1 == calc_bounds(s1.pos, s1.half_size, s1.angle)
        b2 == calc_bounds(s2.pos, s2.half_size, s2.angle)
    IN  IF ~is_touching(b1, b2) THEN NoOverlap
        ELSE SomeOverlap(Vec2(axis_overlap(b1.min.x, b1.max.x, b2.min.x, b2.max.x),
                              axis_overlap(b1.min.y, b1.max.y, b2.min.y, b2.max.y)))

Shape(t) == [pos |-> t.pos, angle |-> t.angle, half_size |-> half_of(scaled_size(t))]

\* ------------------------------------------------- separating axis theorem

\* SatRect { pos, half_size, angle } of a shape.
SatRect(s) == [pos |-> s.pos, half_size |-> s.half_size, angle |-> s.angle]

\* SatRect::get_vertices at angle 0, where sin is 0 and cos is 1.
get_vertices(rect) ==
    <<VAdd(rect.pos, Vec2(-rect.half_size.x, rect.half_size.y)),
      VAdd(rect.pos, Vec2(rect.half_size.x, rect.half_size.y)),
      VAdd(rect.pos, Vec2(rect.half_size.x, -rect.half_size.y)),
      VAdd(rect.pos, Vec2(-rect.half_size.x, -rect.half_size.y))>>

\* Vec2::perp
perp(v) == Vec2(-v.y, v.x)

\* Vec2::normalize of a vector along x or along y that is not 0.
normalize(v) ==
    Vec2(IF v.x > 0 THEN 1 ELSE IF v.x < 0 THEN -1 ELSE 0,
         IF v.y > 0 THEN 1 ELSE IF v.y < 0 THEN -1 ELSE 0)

\* project, its loop from the vertex k on.
RECURSIVE project_from(_, _, _, _, _)
project_from(vertices, axis, k, lo, hi) ==
    IF k > Len(vertices) THEN [min |-> lo, max |-> hi]
    ELSE IF vertices[k].x * axis.x + vertices[k].y * axis.y < lo
    THEN project_from(vertices, axis, k + 1,
                      vertices[k].x * axis.x + vertices[k].y * axis.y, hi)
    ELSE IF vertices[k].x * axis.x + vertices[k].y * axis.y > hi
    THEN project_from(vertices, axis, k + 1, lo,
                      vertices[k].x * axis.x + vertices[k].y * axis.y)
    ELSE project_from(vertices, axis, k + 1, lo, hi)

\* project
project(vertices, axis) ==
    project_from(vertices, axis, 2,
                 vertices[1].x * axis.x + vertices[1].y * axis.y,
                 vertices[1].x * axis.x + vertices[1].y * axis.y)

\* calc_overlap of sat.rs, on two projections: 0 stands for None.
sat_calc_overlap(proj1, proj2) ==
    Max(0, Min(proj1.max, proj2.max) - Max(proj1.min, proj2.min))

\* sat_collision_overlap, its loop from the axis k on.
RECURSIVE sat_axes_from(_, _, _, _, _, _)
sat_axes_from(vs1, vs2, axes, k, min_overlap, min_axis) ==
    IF k > Len(axes)
    THEN SomeOverlap(Vec2(min_axis.x * min_overlap, min_axis.y * min_overlap))
    ELSE IF sat_calc_overlap(project(vs1, normalize(axes[k])),
                             project(vs2, normalize(axes[k]))) = 0
    THEN NoOverlap
    ELSE IF sat_calc_overlap(project(vs1, normalize(axes[k])),
                             project(vs2, normalize(axes[k]))) < min_overlap
    THEN sat_axes_from(vs1, vs2, axes, k + 1,
                       sat_calc_overlap(project(vs1, normalize(axes[k])),
                                        project(vs2, normalize(axes[k]))),
                       normalize(axes[k]))
    ELSE sat_axes_from(vs1, vs2, axes, k + 1, min_overlap, min_axis)

\* sat_collision_overlap with the vertices at hand.
sat_overlap_of(vs1, vs2) ==
    sat_axes_from(vs1, vs2,
                  <<perp(VSub(vs1[2], vs1[1])), perp(VSub(vs1[4], vs1[1])),
                    perp(VSub(vs2[2], vs2[1])), perp(VSub(vs2[4], vs2[1]))>>,
                  1, F32_MAX, VZero)

\* sat_collision_overlap on two rectangles at angle 0 with sides above 0.
sat_collision_overlap(rect1, rect2) ==
    sat_overlap_of(get_vertices(rect1), get_vertices(rect2))

\* ------------------------------------------------------------ entity store

\* Components.  `has` says whether the entity has the component; the other
\* fields of an absent component hold the defaults below and are never read.
\* friction is counted in hundredths per second, max_ground_normal and
\* min_slide_normal in hundredths (0.69 and 1.0 by default), restitution and
\* gravity in whole numbers, group and check_against as sets of group names.
NoTransform ==
    [has |-> FALSE, pos |-> VZero, size |-> VZero, scale |-> Vec2(1, 1), angle |-> 0]
MkTransform(pos, size) ==
    [has |-> TRUE, pos |-> pos, size |-> size, scale |-> Vec2(1, 1), angle |-> 0]
NoPhysics ==
    [has |-> FALSE, physics |-> P_NONE, on_ground |-> FALSE, vel |-> VZero,
     accel |-> VZero, friction |-> VZero, gravity |-> 0, mass |-> 0,
     restitution |-> 0, max_ground_normal |-> 69, min_slide_normal |-> 100,
     group |-> {}, check_against |-> {}]
\* Physics { physics, mass, group, check_against, ..Default::default() }
\* with gravity 0 (a top-down scene) unless set otherwise.
MkPhysics(level, mass, group, check_against) ==
    [has |-> TRUE, physics |-> level, on_ground |-> FALSE, vel |-> VZero,
     accel |-> VZero, friction |-> VZero, gravity |-> 0, mass |-> mass,
     restitution |-> 0, max_ground_normal |-> 69, min_slide_normal |-> 100,
     group |-> group, check_against |-> check_against]
\* The Hooks component: what the entity's callbacks do when invoked.
\*   on_update: "ok" | "kill" (queues a kill of itself) | "err"
\*   on_touch:  "ok" | "kill" (queues a kill of the other) | "damage"
\*   on_kill:   "ok" | "remove" (takes itself off the roster) | "err"
NoHooks == [has |-> FALSE, on_update |-> "ok", on_touch |-> "ok", on_kill |-> "ok"]
MkHooks(u, t, k) == [has |-> TRUE, on_update |-> u, on_touch |-> t, on_kill |-> k]
NoHealth == [has |-> FALSE, value |-> 0, killed |-> FALSE]
MkHealth(v) == [has |-> TRUE, value |-> v, killed |-> FALSE]

\* World::default
EmptyWorld ==
    [entities |-> {}, unique_id |-> 1,
     transform |-> [e \in Ents |-> NoTransform],
     physics |-> [e \in Ents |-> NoPhysics],
     hooks |-> [e \in Ents |-> NoHooks],
     health |-> [e \in Ents |-> NoHealth]]

\* World::get / World::get_mut succeed exactly for the entities of the store.
world_get_ok(w, ent) == ent \in w.entities
\* EntRef::get::<T>() succeeds exactly when the component is stored.
has_transform(w, ent) == w.transform[ent].has
has_physics(w, ent) == w.physics[ent].has
\* get_ent_hooks: Ok iff the entity exists and has a Hooks component.
get_ent_hooks_ok(w, ent) == world_get_ok(w, ent) /\ w.hooks[ent].has

\* World::spawn followed by the adds of the components given.
world_spawn(w, t, p, h, hl) ==
    LET ent == w.unique_id
    IN  [w EXCEPT !.unique_id = ent + 1,
                  !.entities = @ \cup {ent},
                  !.transform[ent] = t,
                  !.physics[ent] = p,
                  !.hooks[ent] = h,
                  !.health[ent] = hl]

\* World::despawn
world_despawn(w, ent) ==
    [w EXCEPT !.entities = @ \ {ent},
              !.transform[ent] = NoTransform,
              !.physics[ent] = NoPhysics,
              !.hooks[ent] = NoHooks,
              !.health[ent] = NoHealth]

\* World::many_mut: panics if an entity does not exist, and otherwise hands
\* out one accessor per requested handle, duplicates included.
world_many_mut(w, ents) ==
    IF \E k \in 1..Len(ents) : ents[k] \notin w.entities
    THEN [result |-> "panic", accessors |-> <<>>]
    ELSE [result |-> "ok", accessors |-> ents]

\* World::get_many_mut: Err(NoEntity) if an entity does not exist, and
\* otherwise Ok with one accessor per requested handle, duplicates included.
world_get_many_mut(w, ents) ==
    IF \E k \in 1..Len(ents) : ents[k] \notin w.entities
    THEN [result |-> "err", accessors |-> <<>>]
    ELSE [result |-> "ok", accessors |-> ents]

\* ------------------------------------------------------------------- sorts

Swap(list, a, b) == [list EXCEPT ![a] = list[b], ![b] = list[a]]

\* An inner loop that moves an element down by one place at most.
sort_inner_once(list, j, K) ==
    IF j < 1 THEN list
    ELSE IF K[list[j]] < K[list[j + 1]] THEN list
    ELSE Swap(list, j, j + 1)

\* The inner loop of insertion_sort_by with is_less(a, b) = K[a] < K[b]:
\* for j in (0..i).rev() { if is_less(list[j], list[j+1]) break; swap }.
RECURSIVE sort_inner(_, _, _)
sort_inner(list, j, K) ==
    IF j < 1 THEN list
    ELSE IF K[list[j]] < K[list[j + 1]] THEN list
    ELSE sort_inner(Swap(list, j, j + 1), j - 1, K)

RECURSIVE sort_outer(_, _, _)
sort_outer(list, i, K) ==
    IF i > Len(list) THEN list
    ELSE sort_outer(sort_inner(list, i - 1, K), i + 1, K)

\* insertion_sort_by_key(list, f), the key function given as K = [e |-> f(e)].
insertion_sort_by_key(list, K) == sort_outer(list, 2, K)

\* The values of the lists given to insertion_sort, and their greatest length.
SortValues == 0..3
MaxLen == 4

\* insertion_sort(list): insertion_sort_by with is_less(a, b) = a < b.
insertion_sort(list) == insertion_sort_by_key(list, [v \in SortValues |-> v])

\* f32 as usize: truncates toward zero, negative values saturate to 0.
as_usize(v) == IF v < 0 THEN 0 ELSE v \div Unit

\* The key closure of sort_entities_for_sweep.
sweep_key(w, axis, ent) ==
    IF world_get_ok(w, ent) /\ has_transform(w, ent)
    THEN as_usize(sweep_axis_get(axis, bounds(w.transform[ent]).min))
    ELSE UsizeMax

\* CollisionSet::sort_entities_for_sweep
sort_entities_for_sweep(ents, w, axis) ==
    insertion_sort_by_key(ents, [e \in Ents |-> sweep_key(w, axis, e)])

\* CollisionSet::add
collision_set_add(ents, ent) == Append(ents, ent)

\* CollisionSet::remove: removes the first occurrence.
collision_set_remove(ents, ent) ==
    IF \E k \in 1..Len(ents) : ents[k] = ent
    THEN LET index == CHOOSE k \in 1..Len(ents) :
                          ents[k] = ent /\ \A m \in 1..(k - 1) : ents[m] # ent
         IN  SubSeq(ents, 1, index - 1) \o SubSeq(ents, index + 1, Len(ents))
    ELSE ents

\* ----------------------------------------------------------- command queue

\* A Command.  `id` is the position of the command in the order of all adds of
\* the behaviour: it identifies the command and is not read by the program.
MkCommand(kind, ent, other, normal, amount, traced, id) ==
    [kind |-> kind, ent |-> ent, other |-> other, normal |-> normal,
     amount |-> amount, traced |-> traced, id |-> id]

\* The store that the simulation functions read and write: the World, the
\* Commands buffer and the count of commands added so far.
MkStore(w, cmds, added) == [w |-> w, cmds |-> cmds, added |-> added]

\* A queue that puts a new command in front of the older ones.
commands_add_front(st, kind, ent, other, normal, amount, traced) ==
    [st EXCEPT !.cmds = <<MkCommand(kind, ent, other, normal, amount, traced,
                                    st.added + 1)>> \o @,
               !.added = @ + 1]

\* Commands::add
commands_add(st, kind, ent, other, normal, amount, traced) ==
    [st EXCEPT !.cmds = Append(@, MkCommand(kind, ent, other, normal, amount,
                                            traced, st.added + 1)),
               !.added = @ + 1]
\* Commands::collide
commands_collide(st, ent, normal, traced) ==
    commands_add(st, "Collide", ent, 0, normal, 0, traced)
\* A kill that despawns at once instead of queueing.
commands_kill_now(st, ent) ==
    [st EXCEPT !.w = [@ EXCEPT !.entities = @ \ {ent}]]

\* Commands::kill
commands_kill(st, ent) == commands_add(st, "KillEnt", ent, 0, VZero, 0, FALSE)
\* Commands::damage
commands_damage(st, ent, by_ent, damage) ==
    commands_add(st, "Damage", ent, by_ent, VZero, damage, FALSE)
\* Commands::trigger
commands_trigger(st, ent, other) ==
    commands_add(st, "Trigger", ent, other, VZero, 0, FALSE)

\* ------------------------------------------------------------- tile tracer

\* A CollisionMap: size in tiles, tile_size in sub-units, and the set of tile
\* positions <<x, y>> whose data is not 0.
MkMap(w, h, tile_size, solid) ==
    [size |-> Vec2(w, h), tile_size |-> tile_size, solid |-> solid]
\* CollisionMap::bounds
map_bounds(map) == Vec2(map.tile_size * map.size.x, map.tile_size * map.size.y)
\* A rule that takes every tile inside of the map for solid.
map_is_collide_inside(map, pos) ==
    ~(pos.x < 0 \/ pos.y < 0 \/ pos.x >= map.size.x \/ pos.y >= map.size.y)

\* CollisionMap::is_collide with the DefaultCollisionRule
map_is_collide(map, pos) ==
    /\ ~(pos.x < 0 \/ pos.y < 0 \/ pos.x >= map.size.x \/ pos.y >= map.size.y)
    /\ <<pos.x, pos.y>> \in map.solid

\* A fraction n / d with d > 0 (a trace length).
Frac(n, d) == [n |-> n, d |-> d]
FracGt(a, b) == a.n * b.d > b.n * a.d
FracLt(a, b) == a.n * b.d < b.n * a.d

\* Trace::default with pos given.
TraceDefault(pos) ==
    [tile |-> 0, tile_pos |-> VZero, length |-> Frac(1, 1), pos |-> pos,
     normal |-> VZero]

\* A resolve_full_tile that stops the shape's first corner, not its leading
\* edge, on the edge of the tile.
resolve_full_tile_corner(map, pos, vel, size, tile_pos, res) ==
    LET rp0 == Vec2(tile_pos.x * map.tile_size
                       + (IF vel.x > 0 THEN 0 ELSE map.tile_size),
                    tile_pos.y * map.tile_size
                       + (IF vel.y > 0 THEN 0 ELSE map.tile_size))
        sign == (vel.x * (rp0.y - pos.y) - vel.y * (rp0.x - pos.x)) * vel.x * vel.y
    IN  IF sign < 0 \/ vel.y = 0
        THEN LET length == Frac(Abs(pos.x - rp0.x), Abs(vel.x))
             IN  IF FracGt(length, res.length) THEN res
                 ELSE [tile |-> 1, tile_pos |-> tile_pos, length |-> length,
                       pos |-> Vec2(rp0.x, pos.y + TruncDiv(length.n * vel.y, length.d)),
                       normal |-> Vec2(IF vel.x > 0 THEN -1 ELSE 1, 0)]
        ELSE LET length == Frac(Abs(pos.y - rp0.y), Abs(vel.y))
             IN  IF FracGt(length, res.length) THEN res
                 ELSE [tile |-> 1, tile_pos |-> tile_pos, length |-> length,
                       pos |-> Vec2(pos.x + TruncDiv(length.n * vel.x, length.d), rp0.y),
                       normal |-> Vec2(0, IF vel.y > 0 THEN -1 ELSE 1)]

\* resolve_full_tile
resolve_full_tile(map, pos, vel, size, tile_pos, res) ==
    LET rp0 == Vec2(tile_pos.x * map.tile_size
                       + (IF vel.x > 0 THEN -size.x ELSE map.tile_size),
                    tile_pos.y * map.tile_size
                       + (IF vel.y > 0 THEN -size.y ELSE map.tile_size))
        sign == (vel.x * (rp0.y - pos.y) - vel.y * (rp0.x - pos.x)) * vel.x * vel.y
    IN  IF sign < 0 \/ vel.y = 0
        THEN LET length == Frac(Abs(pos.x - rp0.x), Abs(vel.x))
             IN  IF FracGt(length, res.length) THEN res
                 ELSE [tile |-> 1, tile_pos |-> tile_pos, length |-> length,
                       pos |-> Vec2(rp0.x, pos.y + TruncDiv(length.n * vel.y, length.d)),
                       normal |-> Vec2(IF vel.x > 0 THEN -1 ELSE 1, 0)]
        ELSE LET length == Frac(Abs(pos.y - rp0.y), Abs(vel.y))
             IN  IF FracGt(length, res.length) THEN res
                 ELSE [tile |-> 1, tile_pos |-> tile_pos, length |-> length,
                       pos |-> Vec2(pos.x + TruncDiv(length.n * vel.x, length.d), rp0.y),
                       normal |-> Vec2(0, IF vel.y > 0 THEN -1 ELSE 1)]

\* check_tile
check_tile(map, pos, vel, size, tile_pos, res) ==
    IF map_is_collide(map, tile_pos)
    THEN resolve_full_tile(map, pos, vel, size, tile_pos, res)
    ELSE res

\* The walk along the vertical edge: for t in 0..num_tiles.
RECURSIVE walk_y(_, _, _, _, _)
walk_y(c, tile_pos, t, num_tiles, res) ==
    IF t >= num_tiles THEN res
    ELSE walk_y(c, tile_pos, t + 1, num_tiles,
                check_tile(c.map, c.from, c.vel, c.size,
                           Vec2(tile_pos.x, tile_pos.y + c.dir.y * t), res))

\* The walk along the horizontal edge: for t in corner_tile_checked..num_tiles.
RECURSIVE walk_x(_, _, _, _, _)
walk_x(c, tile_pos, t, num_tiles, res) ==
    IF t >= num_tiles THEN res
    ELSE walk_x(c, tile_pos, t + 1, num_tiles,
                check_tile(c.map, c.from, c.vel, c.size,
                           Vec2(tile_pos.x + c.dir.x * t, tile_pos.y), res))

\* num_tiles of the vertical walk: ceil(|max_y / tile_size - tile_pos.y - offset.y|)
\* with max_y = from.y + size.y * (1 - offset.y)
\*              + (vel.y / vel.x) * ((tile_pos.x + 1 - offset.x) * tile_size - corner.x)
\* for i > 0 (the column changes after step 0 only when vel.x # 0).
num_tiles_y(c, i, tile_pos) ==
    LET ts == c.map.tile_size
        a == c.from.y + c.size.y * (1 - c.offset.y)
        b == (tile_pos.x + 1 - c.offset.x) * ts - c.corner.x
        k == (tile_pos.y + c.offset.y) * ts
    IN  IF i > 0 /\ c.vel.x # 0
        THEN CeilDiv(Abs(a * c.vel.x + c.vel.y * b - k * c.vel.x), Abs(c.vel.x) * ts)
        ELSE CeilDiv(Abs(a - k), ts)

\* num_tiles of the horizontal walk, likewise.
num_tiles_x(c, i, tile_pos) ==
    LET ts == c.map.tile_size
        a == c.from.x + c.size.x * (1 - c.offset.x)
        b == (tile_pos.y + 1 - c.offset.y) * ts - c.corner.y
        k == (tile_pos.x + c.offset.x) * ts
    IN  IF i > 0 /\ c.vel.y # 0
        THEN CeilDiv(Abs(a * c.vel.y + c.vel.x * b - k * c.vel.y), Abs(c.vel.y) * ts)
        ELSE CeilDiv(Abs(a - k), ts)

\* The tile reached at step i of the marching loop.
step_tile_pos(c, i) ==
    Vec2(TruncDiv(c.corner.x * c.steps + c.vel.x * i, c.steps * c.map.tile_size),
         TruncDiv(c.corner.y * c.steps + c.vel.y * i, c.steps * c.map.tile_size))

\* One turn of the marching loop, its column check: the tiles along the
\* vertical edge if the column changed.
step_column(c, i, last_tile_pos, tile_pos, res) ==
    IF last_tile_pos.x # tile_pos.x
    THEN walk_y(c, tile_pos, 0, num_tiles_y(c, i, tile_pos), res)
    ELSE res

\* One turn of the marching loop, its row check: the tiles along the
\* horizontal edge if the row changed, the corner tile left out if the
\* column check saw it.
step_row(c, i, last_tile_pos, tile_pos, res) ==
    IF last_tile_pos.y # tile_pos.y
    THEN walk_x(c, tile_pos, IF last_tile_pos.x # tile_pos.x THEN 1 ELSE 0,
                num_tiles_x(c, i, tile_pos), res)
    ELSE res

\* One turn of the marching loop: both checks.
trace_step(c, i, last_tile_pos, tile_pos, res) ==
    step_row(c, i, last_tile_pos, tile_pos,
             step_column(c, i, last_tile_pos, tile_pos, res))

\* The marching loop of trace, for i in 0..=steps, entered with the result
\* of the turn i: stop on a hit, or go on with the next turn.
RECURSIVE trace_loop(_, _, _, _, _)
trace_loop(c, i, tile_pos, extra_step_for_slope, res) ==
    IF res.tile > 0 /\ (res.tile = 1 \/ extra_step_for_slope) THEN res
    ELSE IF i + 1 > c.steps THEN res
    ELSE trace_loop(c, i + 1, step_tile_pos(c, i + 1), TRUE,
                    trace_step(c, i + 1, tile_pos, step_tile_pos(c, i + 1), res))

\* trace(map, from_center, vel, size)
trace(map, from_center, vel, size) ==
    LET half_size == half_of(size)
        from == VSub(from_center, half_size)
        to == VAdd(from, vel)
        map_size == map_bounds(map)
        offset == Vec2(IF vel.x > 0 THEN 1 ELSE 0, IF vel.y > 0 THEN 1 ELSE 0)
        corner == Vec2(from.x + size.x * offset.x, from.y + size.y * offset.y)
        dir == Vec2(1 - 2 * offset.x, 1 - 2 * offset.y)
        max_vel == Max(vel.x * (-dir.x), vel.y * (-dir.y))
        steps == CeilDiv(max_vel, map.tile_size)
        c == [map |-> map, from |-> from, vel |-> vel, size |-> size,
              offset |-> offset, corner |-> corner, dir |-> dir, steps |-> steps]
        finish(res) == [res EXCEPT !.pos = VAdd(@, half_size)]
    IN  IF \/ (from.x + size.x < 0 /\ to.x + size.x < 0)
           \/ (from.y + size.y < 0 /\ to.y + size.y < 0)
           \/ (from.x > map_size.x /\ to.x > map_size.x)
           \/ (from.y > map_size.y /\ to.y > map_size.y)
           \/ (vel.x = 0 /\ vel.y = 0)
        THEN finish(TraceDefault(to))
        ELSE IF steps = 0 THEN finish(TraceDefault(to))
        ELSE finish(trace_loop(c, 0, step_tile_pos(c, 0), FALSE,
                               trace_step(c, 0, Vec2(-16, -16), step_tile_pos(c, 0),
                                          TraceDefault(to))))

\* ------------------------------------------------------------ moving bodies

VDot(a, b) == a.x * b.x + a.y * b.y
VScale(a, k) == Vec2(a.x * k, a.y * k)

\* handle_trace_result
handle_trace_result(st, ent, t) ==
    LET st1 == IF has_transform(st.w, ent)
               THEN [st EXCEPT !.w.transform[ent].pos = t.pos]
               ELSE st
    IN  IF t.tile = 0 THEN st1
        ELSE
          LET st2 == IF has_physics(st1.w, ent)
                     THEN [st1 EXCEPT !.w.physics[ent].vel = VZero]
                     ELSE st1
              st3 == commands_collide(st2, ent, t.normal, TRUE)
              phy == st3.w.physics[ent]
              vel_against_normal == VDot(phy.vel, t.normal)
              grounded == phy.gravity # 0 /\ t.normal.y * 100 < -phy.max_ground_normal
              vel1 == IF grounded /\ t.normal.y * 100 < -phy.min_slide_normal
                      THEN Vec2(phy.vel.x, phy.vel.x * t.normal.x)
                      ELSE phy.vel
              rotated_normal == Vec2(-t.normal.y, t.normal.x)
              vel_along_normal == VDot(vel1, rotated_normal)
          IN  IF ~has_physics(st3.w, ent) THEN st3
              ELSE IF /\ phy.restitution > 0
                      /\ Abs(vel_against_normal) * phy.restitution
                           > ENTITY_MIN_BOUNCE_VELOCITY * Unit
              THEN [st3 EXCEPT !.w.physics[ent].vel =
                        VScale(VSub(phy.vel, VScale(t.normal, vel_against_normal * 2)),
                               phy.restitution)]
              ELSE [st3 EXCEPT !.w.physics[ent].on_ground = IF grounded THEN TRUE ELSE @,
                               !.w.physics[ent].vel =
                                   VScale(rotated_normal, vel_along_normal)]

\* A mover that leaves every body where it is.
entity_move_nowhere(st, map, ent, vstep) == st

\* entity_move, the second trace: if the first one stopped short and some
\* velocity is left along the surface, slide with it.
entity_move_slide(st, map, ent, vstep, t) ==
    IF /\ FracLt(t.length, Frac(1, 1))
       /\ VDot(vstep, Vec2(-t.normal.y, t.normal.x)) # 0
    THEN handle_trace_result(
             st, ent,
             trace(map, st.w.transform[ent].pos,
                   VScale(Vec2(-t.normal.y, t.normal.x),
                          TruncDiv(VDot(vstep, Vec2(-t.normal.y, t.normal.x))
                                       * (t.length.d - t.length.n),
                                   t.length.d)),
                   scaled_size(st.w.transform[ent])))
    ELSE st

\* entity_move with the first trace t done.
entity_move_traced(st, map, ent, vstep, t) ==
    entity_move_slide(handle_trace_result(st, ent, t), map, ent, vstep, t)

\* entity_move
entity_move(st, map, ent, vstep) ==
    IF has_physics(st.w, ent) /\ contains(st.w.physics[ent].physics, P_WORLD)
    THEN IF ~has_transform(st.w, ent) THEN st
         ELSE entity_move_traced(st, map, ent, vstep,
                                 trace(map, st.w.transform[ent].pos, vstep,
                                       scaled_size(st.w.transform[ent])))
    ELSE IF has_transform(st.w, ent)
    THEN [st EXCEPT !.w.transform[ent].pos = VAdd(@, vstep)]
    ELSE st

\* The velocity after one tick of gravity, friction and acceleration.
integrate(phy, eng) ==
    LET vy1 == phy.vel.y + eng.gravity * phy.gravity * eng.tick
        fric == Vec2(Min(phy.friction.x * eng.tick, 100),
                     Min(phy.friction.y * eng.tick, 100))
    IN  Vec2(phy.vel.x + (phy.accel.x * eng.tick - TruncDiv(phy.vel.x * fric.x, 100)),
             vy1 + (phy.accel.y * eng.tick - TruncDiv(vy1 * fric.y, 100)))

\* entity_base_update with the old and the new velocity at hand.
integrate_move(st, eng, map, ent, vel, vel2) ==
    entity_move([st EXCEPT !.w.physics[ent].vel = vel2,
                           !.w.physics[ent].on_ground = FALSE],
                map, ent,
                Vec2(TruncDiv((vel.x + vel2.x) * eng.tick, 2),
                     TruncDiv((vel.y + vel2.y) * eng.tick, 2)))

\* entity_base_update: the integrator.  eng = [tick, gravity, sweep_axis].
entity_base_update(st, eng, map, ent) ==
    IF ~world_get_ok(st.w, ent) THEN st
    ELSE IF ~has_physics(st.w, ent) THEN st
    ELSE IF ~contains(st.w.physics[ent].physics, P_MOVE) THEN st
    ELSE integrate_move(st, eng, map, ent, st.w.physics[ent].vel,
                        integrate(st.w.physics[ent], eng))

\* ---------------------------------------------------------------- resolver

\* Shares that are always proportional to the masses, whatever the levels.
move_shares_by_mass(phy_a, phy_b) ==
    [a |-> phy_b.mass, b |-> phy_a.mass, den |-> phy_a.mass + phy_b.mass]

\* Shares that split the move evenly where the levels do not decide.
move_shares_even(phy_a, phy_b) ==
    IF \/ is_collide_mode(phy_a.physics, CM_LITE)
       \/ is_collide_mode(phy_b.physics, CM_FIXED)
    THEN [a |-> 1, b |-> 0, den |-> 1]
    ELSE IF \/ is_collide_mode(phy_a.physics, CM_FIXED)
            \/ is_collide_mode(phy_b.physics, CM_LITE)
    THEN [a |-> 0, b |-> 1, den |-> 1]
    ELSE [a |-> 1, b |-> 1, den |-> 2]

\* The move shares of resolve_collision as fractions a / den, b / den.
move_shares(phy_a, phy_b) ==
    IF \/ is_collide_mode(phy_a.physics, CM_LITE)
       \/ is_collide_mode(phy_b.physics, CM_FIXED)
    THEN [a |-> 1, b |-> 0, den |-> 1]
    ELSE IF \/ is_collide_mode(phy_a.physics, CM_FIXED)
            \/ is_collide_mode(phy_b.physics, CM_LITE)
    THEN [a |-> 0, b |-> 1, den |-> 1]
    ELSE [a |-> phy_b.mass, b |-> phy_a.mass, den |-> phy_a.mass + phy_b.mass]

\* v raised or lowered by the bounce, if the bounce is fast enough.
with_bounce(v, bounce, sign) ==
    IF bounce > ENTITY_MIN_BOUNCE_VELOCITY * Unit THEN v + sign * bounce ELSE v

\* entities_separate_on_x_axis, the left entity.
separate_left(st, map, ent_left, ent_right, left_move, right_move, den, overlap, impact_velocity) ==
    IF left_move > 0
    THEN entity_move(
             [st EXCEPT !.w.physics[ent_left].vel.x =
                 with_bounce(TruncDiv(st.w.physics[ent_right].vel.x * left_move
                                          + st.w.physics[ent_left].vel.x * right_move,
                                      den),
                             impact_velocity * st.w.physics[ent_left].restitution, -1)],
             map, ent_left, Vec2(TruncDiv(-overlap * left_move, den), 0))
    ELSE st

\* entities_separate_on_x_axis, the right entity.
separate_right(st, map, ent_left, ent_right, left_move, right_move, den, overlap, impact_velocity) ==
    IF right_move > 0
    THEN entity_move(
             [st EXCEPT !.w.physics[ent_right].vel.x =
                 with_bounce(TruncDiv(st.w.physics[ent_left].vel.x * right_move
                                          + st.w.physics[ent_right].vel.x * left_move,
                                      den),
                             impact_velocity * st.w.physics[ent_right].restitution, 1)],
             map, ent_right, Vec2(TruncDiv(overlap * right_move, den), 0))
    ELSE st

\* entities_separate_on_x_axis; the shares are left_move / den, right_move / den.
entities_separate_on_x_axis(st, map, ent_left, ent_right, left_move, right_move, den, overlap) ==
    separate_right(
        separate_left(st, map, ent_left, ent_right, left_move, right_move, den, overlap,
                      st.w.physics[ent_left].vel.x - st.w.physics[ent_right].vel.x),
        map, ent_left, ent_right, left_move, right_move, den, overlap,
        st.w.physics[ent_left].vel.x - st.w.physics[ent_right].vel.x)

\* entities_separate_on_y_axis, the top entity: it bounces, or it lands on
\* the bottom one and is carried along with it.
separate_top(st, map, ent_top, ent_bottom, top_move, bottom_move, den, overlap, ticks, impact_velocity) ==
    LET top == st.w.physics[ent_top]
        bottom == st.w.physics[ent_bottom]
        bounced == impact_velocity * top.restitution > ENTITY_MIN_BOUNCE_VELOCITY * Unit
    IN  IF top_move > 0
        THEN entity_move(
                 [st EXCEPT !.w.physics[ent_top].vel.y =
                     with_bounce(TruncDiv(top.vel.y * bottom_move
                                              + bottom.vel.y * top_move, den),
                                 impact_velocity * top.restitution, -1),
                            !.w.physics[ent_top].on_ground = IF bounced THEN @ ELSE TRUE],
                 map, ent_top,
                 Vec2(IF bounced THEN 0 ELSE bottom.vel.x * ticks,
                      TruncDiv(-overlap * top_move, den)))
        ELSE st

\* A bottom entity that is never moved.
separate_bottom_held(st, map, ent_top, ent_bottom, top_move, bottom_move, den, overlap, impact_velocity, top_vel_y) ==
    st

\* entities_separate_on_y_axis, the bottom entity; top_vel_y is the velocity of
\* the top one before it was separated.
separate_bottom(st, map, ent_top, ent_bottom, top_move, bottom_move, den, overlap, impact_velocity, top_vel_y) ==
    IF bottom_move > 0
    THEN entity_move(
             [st EXCEPT !.w.physics[ent_bottom].vel.y =
                 with_bounce(TruncDiv(st.w.physics[ent_bottom].vel.y * top_move
                                          + top_vel_y * bottom_move, den),
                             impact_velocity * st.w.physics[ent_bottom].restitution, 1)],
             map, ent_bottom, Vec2(0, TruncDiv(overlap * bottom_move, den)))
    ELSE st

\* entities_separate_on_y_axis with the shares settled.
separate_y(st, map, ent_top, ent_bottom, top_move, bottom_move, den, overlap, ticks) ==
    separate_bottom(
        separate_top(st, map, ent_top, ent_bottom, top_move, bottom_move, den, overlap,
                     ticks,
                     st.w.physics[ent_top].vel.y - st.w.physics[ent_bottom].vel.y),
        map, ent_top, ent_bottom, top_move, bottom_move, den, overlap,
        st.w.physics[ent_top].vel.y - st.w.physics[ent_bottom].vel.y,
        st.w.physics[ent_top].vel.y)

\* entities_separate_on_y_axis: a bottom entity that stands on the ground
\* leaves the whole move to the top one.
entities_separate_on_y_axis(st, map, ent_top, ent_bottom, top_move, bottom_move, den, overlap, ticks) ==
    IF st.w.physics[ent_bottom].on_ground /\ top_move > 0
    THEN separate_y(st, map, ent_top, ent_bottom, 1, 0, 1, overlap, ticks)
    ELSE separate_y(st, map, ent_top, ent_bottom, top_move, bottom_move, den, overlap,
                    ticks)

\* The axis on which resolve_collision separates a pair: "x", "y" or "none".
resolve_axis(overlap) ==
    IF Abs(overlap.y) > Abs(overlap.x)
    THEN (IF overlap.x # 0 THEN "x" ELSE "none")
    ELSE (IF overlap.y # 0 THEN "y" ELSE "none")

\* The two Collide commands of resolve_collision.
collide_both(st, a, b, normal_a, normal_b) ==
    commands_collide(commands_collide(st, a, normal_a, FALSE), b, normal_b, FALSE)

\* resolve_collision with the move shares m settled.
resolve_with(st, eng, map, a, b, overlap, m) ==
    IF Abs(overlap.y) > Abs(overlap.x)
    THEN IF overlap.x > 0
         THEN collide_both(entities_separate_on_x_axis(st, map, a, b, m.a, m.b, m.den,
                                                       Abs(overlap.x)),
                           a, b, Vec2(-1, 0), Vec2(1, 0))
         ELSE IF overlap.x < 0
         THEN collide_both(entities_separate_on_x_axis(st, map, b, a, m.b, m.a, m.den,
                                                       Abs(overlap.x)),
                           a, b, Vec2(1, 0), Vec2(-1, 0))
         ELSE st
    ELSE IF overlap.y > 0
    THEN collide_both(entities_separate_on_y_axis(st, map, a, b, m.a, m.b, m.den,
                                                  Abs(overlap.y), eng.tick),
                      a, b, Vec2(0, -1), Vec2(0, 1))
    ELSE IF overlap.y < 0
    THEN collide_both(entities_separate_on_y_axis(st, map, b, a, m.b, m.a, m.den,
                                                  Abs(overlap.y), eng.tick),
                      a, b, Vec2(0, 1), Vec2(0, -1))
    ELSE st

\* resolve_collision, entered with both entities in the store (World::many_mut
\* panics otherwise).
resolve_collision(st, eng, map, a, b, overlap) ==
    IF ~has_physics(st.w, a) \/ ~has_physics(st.w, b) THEN st
    ELSE resolve_with(st, eng, map, a, b, overlap,
                      move_shares(st.w.physics[a], st.w.physics[b]))

\* calc_ent_overlap: both entities exist when update_collision calls it.
calc_ent_overlap(w, ent1, ent2) ==
    IF ~has_transform(w, ent1) \/ ~has_transform(w, ent2) THEN NoOverlap
    ELSE calc_overlap(Shape(w.transform[ent1]), Shape(w.transform[ent2]))

\* The filter of update_collision on the first entity of a pair.
sweep_eligible(phy1) ==
    \/ phy1.check_against # {}
    \/ phy1.group # {}
    \/ is_at_least(phy1.physics, P_PASSIVE)

\* A gate that asks for two LITE-or-higher bodies with mass and no more.
should_resolve_any(phy1, phy2) ==
    /\ phy1.physics >= CM_LITE
    /\ phy2.physics >= CM_LITE
    /\ phy1.mass + phy2.mass > 0

\* The condition under which update_collision calls resolve_collision.
should_resolve(phy1, phy2) ==
    /\ phy1.physics >= CM_LITE
    /\ phy2.physics >= CM_LITE
    /\ saturating_add(phy1.physics, phy2.physics) >= CM_ACTIVE + CM_LITE
    /\ phy1.mass + phy2.mass > 0

\* ------------------------------------------------------- hooks and commands

\* EntHooks::update as user code writes it: it may queue a kill of itself.
hook_update(st, ent) ==
    IF st.w.hooks[ent].on_update = "kill" THEN commands_kill(st, ent) ELSE st

\* EntHooks::touch as user code writes it: it may queue a kill or a damage of
\* the other entity.
hook_touch(st, ent, other) ==
    IF st.w.hooks[ent].on_touch = "kill" THEN commands_kill(st, other)
    ELSE IF st.w.hooks[ent].on_touch = "damage" THEN commands_damage(st, other, ent, 1)
    ELSE st

\* Health::is_alive
is_alive(health) == health.value > 0

\* The default EntHooks::damage.  Result: the store and "ok" or "err".
hook_damage(st, ent, damage) ==
    IF ~world_get_ok(st.w, ent) \/ ~st.w.health[ent].has
    THEN [st |-> st, result |-> "err"]
    ELSE LET st1 == [st EXCEPT !.w.health[ent].value = @ - damage]
             health == st1.w.health[ent]
         IN  [st |-> IF ~is_alive(health) /\ ~health.killed
                     THEN commands_kill(st1, ent) ELSE st1,
              result |-> "ok"]

\* Commands::take: the buffer taken and the store left with an empty buffer.
commands_take(st) == [taken |-> st.cmds, st |-> [st EXCEPT !.cmds = <<>>]]

\* A dispatcher that unwraps its lookups: a command on an entity that is not
\* in the store panics; a KillEnt despawns, any other command does nothing.
handle_command_unwrap(st, roster, command) ==
    IF ~world_get_ok(st.w, command.ent)
    THEN [st |-> st, roster |-> roster, result |-> "panic", hook |-> "none"]
    ELSE IF command.kind = "KillEnt"
    THEN [st |-> [st EXCEPT !.w = world_despawn(@, command.ent)], roster |-> roster,
          result |-> "ok", hook |-> "kill"]
    ELSE [st |-> st, roster |-> roster, result |-> "ok", hook |-> "none"]

\* handle_command.  Result: the store, the roster (a kill hook may take its
\* entity off it), "ok" or "err" (the Result that handle_commands logs), and
\* the hook that ran ("none" if the command failed before any hook).
handle_command(st, roster, command) ==
    LET ent == command.ent
        fail(s) == [st |-> s, roster |-> roster, result |-> "err", hook |-> "none"]
    IN  CASE command.kind = "KillEnt" ->
               IF ~world_get_ok(st.w, ent) THEN fail(st)
               ELSE LET st1 == IF st.w.health[ent].has
                               THEN [st EXCEPT !.w.health[ent].killed = TRUE]
                               ELSE st
                    IN  IF ~get_ent_hooks_ok(st1.w, ent) THEN fail(st1)
                        ELSE IF st1.w.hooks[ent].on_kill = "err"
                        THEN [st |-> st1, roster |-> roster, result |-> "err",
                              hook |-> "kill"]
                        ELSE [st |-> [st1 EXCEPT !.w = world_despawn(@, ent)],
                              roster |-> IF st1.w.hooks[ent].on_kill = "remove"
                                         THEN collision_set_remove(roster, ent)
                                         ELSE roster,
                              result |-> "ok", hook |-> "kill"]
          [] command.kind = "Damage" ->
               IF ~get_ent_hooks_ok(st.w, ent) THEN fail(st)
               ELSE LET r == hook_damage(st, ent, command.amount)
                    IN  [st |-> r.st, roster |-> roster, result |-> r.result,
                         hook |-> "damage"]
          [] command.kind = "Collide" ->
               IF ~get_ent_hooks_ok(st.w, ent) THEN fail(st)
               ELSE [st |-> st, roster |-> roster, result |-> "ok", hook |-> "collide"]
          [] OTHER ->
               IF ~get_ent_hooks_ok(st.w, ent) THEN fail(st)
               ELSE [st |-> st, roster |-> roster, result |-> "ok", hook |-> "trigger"]

\* update_collision, the narrow phase of a pair, its first touch: the hook of
\* ent1 if ent1 checks against a group of ent2.
touch_first(st, ent1, ent2) ==
    IF /\ (st.w.physics[ent1].check_against \cap st.w.physics[ent2].group) # {}
       /\ get_ent_hooks_ok(st.w, ent1)
    THEN hook_touch(st, ent1, ent2)
    ELSE st

\* A second touch that tests the masks the way the first touch does.
touch_second_as_first(st, ent1, ent2) ==
    IF /\ (st.w.physics[ent1].check_against \cap st.w.physics[ent2].group) # {}
       /\ get_ent_hooks_ok(st.w, ent2)
    THEN hook_touch(st, ent2, ent1)
    ELSE st

\* ... its second touch: the hook of ent2 if ent2 checks against a group of
\* ent1.
touch_second(st, ent1, ent2) ==
    IF /\ (st.w.physics[ent1].group \cap st.w.physics[ent2].check_against) # {}
       /\ get_ent_hooks_ok(st.w, ent2)
    THEN hook_touch(st, ent2, ent1)
    ELSE st

\* ... and its resolution.
resolve_if(st, eng, map, ent1, ent2, overlap) ==
    IF should_resolve(st.w.physics[ent1], st.w.physics[ent2])
    THEN resolve_collision(st, eng, map, ent1, ent2, overlap)
    ELSE st

\* The narrow phase of a pair with an overlap, both with Physics.
narrow_phase(st, eng, map, ent1, ent2, overlap) ==
    resolve_if(touch_second(touch_first(st, ent1, ent2), ent1, ent2),
               eng, map, ent1, ent2, overlap)

\* A touch hook runs in the narrow phase of the pair.
touches(w, ent1, ent2) ==
    \/ /\ (w.physics[ent1].check_against \cap w.physics[ent2].group) # {}
       /\ get_ent_hooks_ok(w, ent1)
    \/ /\ (w.physics[ent1].group \cap w.physics[ent2].check_against) # {}
       /\ get_ent_hooks_ok(w, ent2)

\* ------------------------------------------------------------------- state

VARIABLES
    world,          \* the World: entities and their components
    commands,       \* the buffer of the Commands resource
    collision_set,  \* CollisionSet::ents, the roster
    eng,            \* the Engine fields read here: tick, gravity, sweep_axis
    map,            \* the CollisionMap resource
    pc,             \* where update_entities stands: "idle" between frames,
                    \* "update", "sweep", "dispatch", or "panic"
    snapshot,       \* update_entities: the entities collected at frame start
    updated,        \* update_entities: the entities of snapshot already updated
    i,              \* update_collision: index of the first entity of the pair
    j,              \* update_collision: index of the second one, 0 outside the
                    \* inner loop
    max_pos,        \* update_collision: max_pos of the first entity
    drain,          \* handle_commands: the commands taken and not yet handled
    frame,          \* history: number of frames started
    added,          \* history: number of commands ever added
    dispatched,     \* history: ids of the commands handled, in order
    invoked,        \* history: <<hook, pc>> for every hook call made
    phase_log,      \* history: the phases of the current frame, in order
    found,          \* history: pairs the sweep of this frame found touching
    resolved,       \* history: pairs given to resolve_collision in this frame
    pre,            \* history: the World before the last resolve_collision,
                    \* and the number of commands added before it
    last,           \* history: what the last handle_command call returned
    call            \* history: the last World::many_mut / get_many_mut call

vars == <<world, commands, collision_set, eng, map, pc, snapshot, updated, i, j,
          max_pos, drain, frame, added, dispatched, invoked, phase_log, found,
          resolved, pre, last, call>>

sweep_vars == <<i, j, max_pos>>
history_vars == <<dispatched, invoked, phase_log, found, resolved, pre, last, call>>

Store == MkStore(world, commands, added)

NoCall == [op |-> "none", ents |-> <<>>, result |-> "ok", accessors |-> <<>>]
NoLast == [id |-> 0, dead |-> FALSE, result |-> "ok", world_kept |-> TRUE]

\* The World w as `pre` keeps it: with the count of the commands added before
\* the resolve_collision call.
Before(w, n) == [entities |-> w.entities, unique_id |-> w.unique_id,
                 transform |-> w.transform, physics |-> w.physics,
                 hooks |-> w.hooks, health |-> w.health, added |-> n]

\* The phase p entered in the log of the frame.
LogPhase(log, p) ==
    IF log # <<>> /\ log[Len(log)] = p THEN log ELSE Append(log, p)

\* A map of 4 x 4 tiles of 8 units without any solid tile.
OpenMap == MkMap(4, 4, 8 * Unit, {})

\* The state after Engine and World construction, init_commands and
\* init_collision, with the entities given already spawned.
InitWith(w, roster, engine, m) ==
    /\ world = w
    /\ commands = <<>>
    /\ collision_set = roster
    /\ eng = engine
    /\ map = m
    /\ pc = "idle"
    /\ snapshot = {}
    /\ updated = {}
    /\ i = 1
    /\ j = 0
    /\ max_pos = 0
    /\ drain = <<>>
    /\ frame = 0
    /\ added = 0
    /\ dispatched = <<>>
    /\ invoked = {}
    /\ phase_log = <<>>
    /\ found = {}
    /\ resolved = {}
    /\ pre = Before(w, 0)
    /\ last = NoLast
    /\ call = NoCall

\* ------------------------------------------------------------ user actions

\* What the scenes of the model spawn.
\*   player: a body that moves right and is in group "player"
\*   item:   a passive body that checks against "player" and damages it
\*   mine:   a body that asks for its own death in its update hook and whose
\*           touch hook kills the other entity; its kill hook fails
\*   ghost:  Physics but no Transform, no Hooks
\*   decor:  a Transform and nothing else
Archetypes == {"player", "item", "mine", "ghost", "decor"}

ArchTransform(a) ==
    CASE a = "player" -> MkTransform(Vec2(0, 0), Vec2(2 * Unit, 2 * Unit))
      [] a = "item" -> MkTransform(Vec2(Unit, 0), Vec2(2 * Unit, 2 * Unit))
      [] a = "mine" -> MkTransform(Vec2(0, Unit), Vec2(2 * Unit, 2 * Unit))
      [] a = "decor" -> MkTransform(Vec2(Unit, Unit), Vec2(2 * Unit, 2 * Unit))
      [] OTHER -> NoTransform

ArchPhysics(a) ==
    CASE a = "player" -> [MkPhysics(P_ACTIVE, 1, {"player"}, {})
                             EXCEPT !.vel = Vec2(Unit, 0)]
      [] a = "item" -> MkPhysics(P_PASSIVE, 1, {}, {"player"})
      [] a = "mine" -> MkPhysics(P_ACTIVE, 1, {"player"}, {"player"})
      [] a = "ghost" -> MkPhysics(P_PASSIVE, 1, {}, {})
      [] OTHER -> NoPhysics

ArchHooks(a) ==
    CASE a = "player" -> MkHooks("ok", "ok", "remove")
      [] a = "item" -> MkHooks("ok", "damage", "ok")
      [] a = "mine" -> MkHooks("kill", "kill", "err")
      [] OTHER -> NoHooks

ArchHealth(a) ==
    CASE a = "player" -> MkHealth(1)
      [] a = "mine" -> MkHealth(2)
      [] OTHER -> NoHealth

\* User code between frames: World::spawn, the adds of the components, and
\* CollisionSet::add.
Spawn(a) ==
    /\ pc = "idle"
    /\ world.unique_id <= MaxSpawns
    /\ world' = world_spawn(world, ArchTransform(a), ArchPhysics(a), ArchHooks(a),
                            ArchHealth(a))
    /\ collision_set' = collision_set_add(collision_set, world.unique_id)
    /\ UNCHANGED <<commands, eng, map, pc, snapshot, updated, sweep_vars, drain,
                   frame, added, history_vars>>

\* User code between frames: Commands::kill or Commands::damage on a handle
\* that World::spawn returned earlier.
Request(kind, ent) ==
    /\ pc = "idle"
    /\ added < MaxQueue
    /\ ent < world.unique_id
    /\ LET st == IF kind = "KillEnt" THEN commands_kill(Store, ent)
                 ELSE commands_damage(Store, ent, ent, 1)
       IN  /\ commands' = st.cmds
           /\ added' = st.added
    /\ UNCHANGED <<world, collision_set, eng, map, pc, snapshot, updated, sweep_vars,
                   drain, frame, history_vars>>

\* ------------------------------------------------------------------- frame

\* update_entities, its first statement: collect the entities.
BeginFrame ==
    /\ pc = "idle"
    /\ frame < MaxFrames
    /\ pc' = "update"
    /\ frame' = frame + 1
    /\ snapshot' = world.entities
    /\ updated' = {}
    /\ phase_log' = <<>>
    /\ found' = {}
    /\ resolved' = {}
    /\ UNCHANGED <<world, commands, collision_set, eng, map, sweep_vars, drain, added,
                   dispatched, invoked, pre, last, call>>

\* update_entities, one turn of its loop: the update hook, entity_base_update
\* and the post_update hook (the default, which does nothing) of one entity.
\* The entities come out of a HashSet, in any order.
UpdateEntity(ent) ==
    /\ pc = "update"
    /\ ent \in snapshot \ updated
    /\ \E st \in {entity_base_update(IF get_ent_hooks_ok(world, ent)
                                       THEN hook_update(Store, ent) ELSE Store,
                                       eng, map, ent)} :
           /\ world' = st.w
           /\ commands' = st.cmds
           /\ added' = st.added
    /\ invoked' = IF get_ent_hooks_ok(world, ent)
                  THEN invoked \cup {<<"update", pc>>, <<"post_update", pc>>}
                  ELSE invoked
    /\ updated' = updated \cup {ent}
    /\ phase_log' = LogPhase(phase_log, "update")
    /\ UNCHANGED <<collision_set, eng, map, pc, snapshot, sweep_vars, drain, frame,
                   dispatched, found, resolved, pre, last, call>>

\* update_collision up to its outer loop: the roster is sorted.
SortRoster ==
    /\ pc = "update"
    /\ updated = snapshot
    /\ collision_set' = sort_entities_for_sweep(collision_set, world, eng.sweep_axis)
    /\ pc' = "sweep"
    /\ i' = 1
    /\ j' = 0
    /\ phase_log' = LogPhase(phase_log, "sort")
    /\ UNCHANGED <<world, commands, eng, map, snapshot, updated, max_pos, drain, frame,
                   added, dispatched, invoked, found, resolved, pre, last, call>>

\* update_collision, the head of one turn of the outer loop: the first entity
\* is looked up and filtered; reading the bounds of an entity without a
\* Transform panics (Result::unwrap on an Err).
SweepOuter ==
    /\ pc = "sweep"
    /\ j = 0
    /\ i <= Len(collision_set)
    /\ LET ent1 == collision_set[i]
       IN  IF ~world_get_ok(world, ent1) \/ ~has_physics(world, ent1)
           THEN /\ i' = i + 1
                /\ UNCHANGED <<pc, j, max_pos>>
           ELSE IF ~has_transform(world, ent1)
           THEN /\ pc' = "panic"
                /\ UNCHANGED <<i, j, max_pos>>
           ELSE IF sweep_eligible(world.physics[ent1]) /\ i + 1 <= Len(collision_set)
           THEN /\ j' = i + 1
                /\ max_pos' = sweep_axis_get(eng.sweep_axis,
                                             bounds(world.transform[ent1]).max)
                /\ UNCHANGED <<pc, i>>
           ELSE /\ i' = i + 1
                /\ UNCHANGED <<pc, j, max_pos>>
    /\ phase_log' = LogPhase(phase_log, "sweep")
    /\ UNCHANGED <<world, commands, collision_set, eng, map, snapshot, updated, drain,
                   frame, added, dispatched, invoked, found, resolved, pre, last, call>>

\* The loop variables after the turn j of the inner loop: `continue`.
NextPair ==
    IF j + 1 > Len(collision_set)
    THEN i' = i + 1 /\ j' = 0
    ELSE i' = i /\ j' = j + 1

\* update_collision, one turn of the inner loop.
SweepPair ==
    /\ pc = "sweep"
    /\ j # 0
    /\ \E ent1 \in {collision_set[i]}, ent2 \in {collision_set[j]} :
         IF ~world_get_ok(world, ent2) \/ ~has_transform(world, ent2)
         THEN /\ NextPair
              /\ UNCHANGED <<world, commands, added, invoked, found, resolved, pre>>
         ELSE IF sweep_axis_get(eng.sweep_axis, bounds(world.transform[ent2]).min)
                   > max_pos
         THEN /\ i' = i + 1
              /\ j' = 0
              /\ UNCHANGED <<world, commands, added, invoked, found, resolved, pre>>
         ELSE \E overlap \in {calc_ent_overlap(world, ent1, ent2)} :
                IF ~overlap.some
                THEN /\ NextPair
                     /\ UNCHANGED <<world, commands, added, invoked, found, resolved,
                                    pre>>
                ELSE IF ~has_physics(world, ent1) \/ ~has_physics(world, ent2)
                THEN /\ NextPair
                     /\ found' = found \cup {{ent1, ent2}}
                     /\ UNCHANGED <<world, commands, added, invoked, resolved, pre>>
                ELSE /\ NextPair
                     /\ found' = found \cup {{ent1, ent2}}
                     /\ \E st \in {narrow_phase(Store, eng, map, ent1, ent2,
                                                overlap.v)} :
                            /\ world' = st.w
                            /\ commands' = st.cmds
                            /\ added' = st.added
                     /\ invoked' = IF touches(world, ent1, ent2)
                                   THEN invoked \cup {<<"touch", pc>>}
                                   ELSE invoked
                     /\ \E gate \in {should_resolve(world.physics[ent1],
                                                    world.physics[ent2])} :
                            /\ resolved' = IF gate THEN resolved \cup {<<ent1, ent2>>}
                                           ELSE resolved
                            /\ pre' = IF gate THEN Before(world, added) ELSE pre
    /\ phase_log' = LogPhase(phase_log, "sweep")
    /\ UNCHANGED <<collision_set, eng, map, pc, snapshot, updated, max_pos, drain,
                   frame, dispatched, last, call>>

\* The sweep of update_collision has gone through the whole roster.
SweepDone == pc = "sweep" /\ j = 0 /\ i > Len(collision_set)

\* TakeCommands without waiting for the sweep to finish.
TakeCommandsEarly ==
    /\ pc = "sweep"
    /\ drain' = commands
    /\ commands' = <<>>
    /\ pc' = "dispatch"
    /\ UNCHANGED <<world, collision_set, eng, map, snapshot, updated, sweep_vars,
                   frame, added, history_vars>>

\* handle_commands up to its loop: Commands::take.
TakeCommands ==
    /\ SweepDone
    /\ \E r \in {commands_take(Store)} :
           /\ drain' = r.taken
           /\ commands' = r.st.cmds
    /\ pc' = "dispatch"
    /\ UNCHANGED <<world, collision_set, eng, map, snapshot, updated, sweep_vars,
                   frame, added, history_vars>>

\* handle_commands, one turn of its loop: handle_command on the next command;
\* an Err is logged and the loop goes on.
DispatchCommand ==
    /\ pc = "dispatch"
    /\ drain # <<>>
    /\ \E command \in {Head(drain)},
          r \in {handle_command(Store, collision_set, Head(drain))} :
           /\ world' = r.st.w
           /\ commands' = r.st.cmds
           /\ added' = r.st.added
           /\ collision_set' = r.roster
           /\ invoked' = IF r.hook = "none" THEN invoked
                         ELSE invoked \cup {<<r.hook, pc>>}
           /\ dispatched' = Append(dispatched, command.id)
           /\ last' = [id |-> command.id,
                       dead |-> ~world_get_ok(world, command.ent),
                       result |-> r.result,
                       world_kept |-> r.st.w = world]
    /\ drain' = Tail(drain)
    /\ phase_log' = LogPhase(phase_log, "dispatch")
    /\ UNCHANGED <<eng, map, pc, snapshot, updated, sweep_vars, frame, found, resolved,
                   pre, call>>

\* update_entities returns.
EndFrame ==
    /\ pc = "dispatch"
    /\ drain = <<>>
    /\ pc' = "idle"
    /\ phase_log' = <<>>
    /\ UNCHANGED <<world, commands, collision_set, eng, map, snapshot, updated,
                   sweep_vars, drain, frame, added, dispatched, invoked, found,
                   resolved, pre, last, call>>

Engine(axis) == [tick |-> 1, gravity |-> 0, sweep_axis |-> axis]

Init == InitWith(EmptyWorld, <<>>, Engine("X"), OpenMap)

Next ==
    \/ \E a \in Archetypes : Spawn(a)
    \/ \E kind \in {"KillEnt", "Damage"}, ent \in Ents : Request(kind, ent)
    \/ BeginFrame
    \/ \E ent \in Ents : UpdateEntity(ent)
    \/ SortRoster
    \/ SweepOuter
    \/ SweepPair
    \/ TakeCommands
    \/ DispatchCommand
    \/ EndFrame

Spec == Init /\ [][Next]_vars

\* ------------------------------------------------ sweeping a fixed scene

\* One frame of a scene without hooks: update, sort and sweep.
NextCollide ==
    \/ BeginFrame
    \/ \E ent \in Ents : UpdateEntity(ent)
    \/ SortRoster
    \/ SweepOuter
    \/ SweepPair

\* The store with the entities 1..n spawned, entity e with Transform t[e] and
\* Physics p[e], none with Hooks or Health.
RECURSIVE SpawnAll(_, _, _)
SpawnAll(n, t, p) ==
    IF n = 0 THEN EmptyWorld
    ELSE world_spawn(SpawnAll(n - 1, t, p), t[n], p[n], NoHooks, NoHealth)

\* The roster after CollisionSet::add of the entities 1..n in that order.
RosterOf(n) == [k \in 1..n |-> k]

\* Centres on the sweep axis, in sub-units, of the bodies of SpecSweep: each
\* body is 2 sub-units wide, so that its bounds-min is negative, fractional,
\* or whole, and several of them truncate to the same integer.
SweepXs == {-6, -3, 0, 1, 4}

\* A scene of NumEnts passive bodies without groups on one line.
InitSweep ==
    \E xs \in [Ents -> SweepXs] :
        InitWith(SpawnAll(NumEnts,
                          [e \in Ents |-> MkTransform(Vec2(xs[e], 0), Vec2(2, 2))],
                          [e \in Ents |-> MkPhysics(P_PASSIVE, 1, {}, {})]),
                 RosterOf(NumEnts), Engine("X"), OpenMap)

SpecSweep == InitSweep /\ [][NextCollide]_vars

\* A pair of overlapping bodies of every physics level, with masses 0 or 1,
\* both in one group or in none, the second left or right of the first.
InitGate ==
    \E l1, l2 \in Levels, m1, m2 \in {0, 1}, g \in {{}, {"g"}}, x2 \in {Unit, 3 * Unit} :
        InitWith(SpawnAll(2,
                          <<MkTransform(Vec2(2 * Unit, 0), Vec2(2 * Unit, 2 * Unit)),
                            MkTransform(Vec2(x2, 0), Vec2(2 * Unit, 2 * Unit))>>,
                          <<MkPhysics(l1, m1, g, {}), MkPhysics(l2, m2, g, {})>>),
                 RosterOf(2), Engine("X"), OpenMap)

SpecGate == InitGate /\ [][NextCollide]_vars

\* OpenMap with the tile left of the first body of InitResolve made solid.
WallMap == MkMap(4, 4, 16, {<<0, 1>>})

\* The offsets, in sub-units, of the second body of InitResolve from the first.
Offsets == {-8, -4, 0, 4, 8}

\* A pair of bodies 8 sub-units wide that the sweep resolves: the second one
\* around the first, at rest or moving right, in the open or next to a wall.
InitResolve ==
    \E l1, l2 \in {P_LITE, P_PASSIVE, P_ACTIVE, P_FIXED}, m1, m2 \in {0, 1},
       dx, dy \in Offsets, vx \in {0, 4}, m \in {OpenMap, WallMap} :
        /\ should_resolve(MkPhysics(l1, m1, {}, {}), MkPhysics(l2, m2, {}, {}))
        /\ InitWith(SpawnAll(2,
                             <<MkTransform(Vec2(20, 20), Vec2(8, 8)),
                               MkTransform(Vec2(20 + dx, 20 + dy), Vec2(8, 8))>>,
                             <<MkPhysics(l1, m1, {"g"}, {}),
                               [MkPhysics(l2, m2, {"g"}, {}) EXCEPT !.vel = Vec2(vx, 0)]>>),
                    RosterOf(2), Engine("X"), m)

SpecResolve == InitResolve /\ [][NextCollide]_vars

\* -------------------------------------------------------- borrowing a pair

\* ------------------------------------------------- landing on a fixed scene

\* OpenMap with one solid tile, the floor under the bodies of InitLanding.
FloorMap == MkMap(4, 4, 16, {<<1, 2>>})

\* A pair of ACTIVE or PASSIVE bodies 8 sub-units wide with masses 0, 1 or 3
\* in a side view (their gravity is not 0): the first stands on the floor or
\* 8 sub-units above it, at rest or falling; the second overlaps it from
\* above or from the side.
InitLanding ==
    \E l1, l2 \in {P_PASSIVE, P_ACTIVE}, m1, m2 \in {0, 1, 3}, y0 \in {20, 28},
       dx \in {-4, 0, 4}, dy \in {-4, 0}, vy \in {0, 4} :
        /\ should_resolve(MkPhysics(l1, m1, {}, {}), MkPhysics(l2, m2, {}, {}))
        /\ InitWith(SpawnAll(2,
                             <<MkTransform(Vec2(24, y0), Vec2(8, 8)),
                               MkTransform(Vec2(24 + dx, y0 + dy), Vec2(8, 8))>>,
                             <<[MkPhysics(l1, m1, {"g"}, {})
                                   EXCEPT !.gravity = 1, !.vel = Vec2(0, vy)],
                               [MkPhysics(l2, m2, {"g"}, {}) EXCEPT !.gravity = 1]>>),
                    RosterOf(2), Engine("X"), FloorMap)

SpecLanding == InitLanding /\ [][NextCollide]_vars

\* ------------------------------------------------ masses of a fixed scene

\* The masses of the bodies of InitMasses; Physics::mass is an f32 that
\* nothing validates.
Masses == {-1, 0, 1, 3}

\* A pair of overlapping bodies that collide with entities, of every such
\* level and every mass, the second left or right of the first.
InitMasses ==
    \E l1, l2 \in {P_LITE, P_PASSIVE, P_ACTIVE, P_FIXED}, m1, m2 \in Masses,
       dx \in {-4, 4} :
        InitWith(SpawnAll(2,
                          <<MkTransform(Vec2(20, 20), Vec2(8, 8)),
                            MkTransform(Vec2(20 + dx, 20), Vec2(8, 8))>>,
                          <<MkPhysics(l1, m1, {"g"}, {}), MkPhysics(l2, m2, {"g"}, {})>>),
                 RosterOf(2), Engine("X"), OpenMap)

SpecMasses == InitMasses /\ [][NextCollide]_vars

\* ------------------------------------------------- a head-on collision

\* Two ACTIVE or PASSIVE bodies 8 sub-units wide with masses 1 or 3 that
\* move against each other with equal speed v along x or along y, in the
\* open, from a gap that leaves them 4 sub-units deep in overlap after the
\* update of the frame.
InitHeadOn ==
    \E l1, l2 \in {P_PASSIVE, P_ACTIVE}, m1, m2 \in {1, 3}, axis \in {"X", "Y"},
       side \in {-1, 1}, v \in {0, 2, 4} :
        /\ should_resolve(MkPhysics(l1, m1, {}, {}), MkPhysics(l2, m2, {}, {}))
        /\ InitWith(
               SpawnAll(2,
                        <<MkTransform(Vec2(40, 40), Vec2(8, 8)),
                          MkTransform(IF axis = "X"
                                      THEN Vec2(40 + side * (4 + 2 * v), 40)
                                      ELSE Vec2(40, 40 + side * (4 + 2 * v)),
                                      Vec2(8, 8))>>,
                        <<[MkPhysics(l1, m1, {"g"}, {})
                              EXCEPT !.vel = IF axis = "X" THEN Vec2(side * v, 0)
                                             ELSE Vec2(0, side * v)],
                          [MkPhysics(l2, m2, {"g"}, {})
                              EXCEPT !.vel = IF axis = "X" THEN Vec2(-side * v, 0)
                                             ELSE Vec2(0, -side * v)]>>),
               RosterOf(2), Engine("X"), MkMap(8, 8, 16, {}))

SpecHeadOn == InitHeadOn /\ [][NextCollide]_vars

\* ------------------------------------------------ touching on a fixed scene

\* The group masks of the bodies of InitTouch.
Masks == {{}, {"g"}}

\* A pair of overlapping bodies of every physics level with every choice of
\* group and check_against; the touch hook of a body kills the other one, the
\* first body may be without Hooks, and the second is left or right of it.
InitTouch ==
    \E l1, l2 \in Levels, m2 \in {0, 1}, g1, g2, c1, c2 \in Masks,
       h1 \in {NoHooks, MkHooks("ok", "kill", "ok")}, dx \in {-4, 4} :
        InitWith(world_spawn(world_spawn(EmptyWorld,
                                         MkTransform(Vec2(20, 20), Vec2(8, 8)),
                                         MkPhysics(l1, 1, g1, c1), h1, NoHealth),
                             MkTransform(Vec2(20 + dx, 20), Vec2(8, 8)),
                             MkPhysics(l2, m2, g2, c2), MkHooks("ok", "kill", "ok"),
                             NoHealth),
                 RosterOf(2), Engine("X"), OpenMap)

SpecTouch == InitTouch /\ [][NextCollide]_vars

\* User code between frames calls World::many_mut on two handles.
ManyMut(a, b) ==
    /\ pc = "idle"
    /\ LET r == world_many_mut(world, <<a, b>>)
       IN  /\ call' = [op |-> "many_mut", ents |-> <<a, b>>, result |-> r.result,
                       accessors |-> r.accessors]
           /\ pc' = IF r.result = "panic" THEN "panic" ELSE pc
    /\ UNCHANGED <<world, commands, collision_set, eng, map, snapshot, updated,
                   sweep_vars, drain, frame, added, dispatched, invoked, phase_log,
                   found, resolved, pre, last>>

\* User code between frames calls World::get_many_mut on two handles.
GetManyMut(a, b) ==
    /\ pc = "idle"
    /\ LET r == world_get_many_mut(world, <<a, b>>)
       IN  call' = [op |-> "get_many_mut", ents |-> <<a, b>>, result |-> r.result,
                    accessors |-> r.accessors]
    /\ UNCHANGED <<world, commands, collision_set, eng, map, pc, snapshot, updated,
                   sweep_vars, drain, frame, added, dispatched, invoked, phase_log,
                   found, resolved, pre, last>>

NextBorrow ==
    \/ \E a \in Archetypes : Spawn(a)
    \/ \E a, b \in Ents : ManyMut(a, b)
    \/ \E a, b \in Ents : GetManyMut(a, b)

SpecBorrow == Init /\ [][NextBorrow]_vars

\* ------------------------------------------------ calling the pure functions

\* The half sizes of the rectangles given to calc_overlap.
HalfSizes == {Vec2(4, 4), Vec2(4, 2), Vec2(2, 6)}

\* calc_overlap's caller hands it two unrotated shapes, once; the same two
\* are given to sat_collision_overlap.
CalcOverlap(s1, s2) ==
    /\ pc = "idle"
    /\ call = NoCall
    /\ call' = [op |-> "calc_overlap", ents |-> <<>>, result |-> "ok",
                accessors |-> <<>>, args |-> <<s1, s2>>,
                fast |-> calc_overlap(s1, s2),
                slow |-> sat_collision_overlap(SatRect(s1), SatRect(s2))]
    /\ UNCHANGED <<world, commands, collision_set, eng, map, pc, snapshot, updated,
                   sweep_vars, drain, frame, added, dispatched, invoked, phase_log,
                   found, resolved, pre, last>>

NextOverlap ==
    \E x, y \in -10..10, h1, h2 \in HalfSizes :
        CalcOverlap([pos |-> VZero, angle |-> 0, half_size |-> h1],
                    [pos |-> Vec2(x, y), angle |-> 0, half_size |-> h2])

SpecOverlap == Init /\ [][NextOverlap]_vars

\* The collision maps given to trace: 4 x 4 tiles of 16 sub-units, without a
\* solid tile or with the tile <<1, 1>> solid.
TileMap == MkMap(4, 4, 16, {<<1, 1>>})
TraceMaps == {MkMap(4, 4, 16, {}), TileMap}

\* The centres, displacements and sizes given to trace: centres inside and
\* outside of the map, displacements of less than a tile and of several
\* tiles, sizes of a point, of half a tile and of more than a tile.
TraceStarts == {-8, -4, 0, 4, 8, 12, 16, 20, 24, 28, 32, 36, 40, 44, 48}
TraceSteps == {-40, -16, -8, -4, 0, 4, 8, 16, 40}
TraceSizes == {Vec2(0, 0), Vec2(8, 8), Vec2(8, 24)}

\* User code calls trace, once.
Trace(m, from_center, vel, size) ==
    /\ pc = "idle"
    /\ call = NoCall
    /\ call' = [op |-> "trace", ents |-> <<>>, result |-> "ok", accessors |-> <<>>,
                args |-> [map |-> m, from_center |-> from_center, vel |-> vel,
                          size |-> size],
                t |-> trace(m, from_center, vel, size)]
    /\ UNCHANGED <<world, commands, collision_set, eng, map, pc, snapshot, updated,
                   sweep_vars, drain, frame, added, dispatched, invoked, phase_log,
                   found, resolved, pre, last>>

NextTrace ==
    /\ call = NoCall
    /\ \E m \in TraceMaps, x, y \in TraceStarts, vx, vy \in TraceSteps,
          size \in TraceSizes :
           Trace(m, Vec2(x, y), Vec2(vx, vy), size)

SpecTrace == Init /\ [][NextTrace]_vars

\* ------------------------------------------------ Engine::entities_update
\* The frame of src/engine.rs over the World of src/world.rs: a list of
\* entity references, the count of those allocated, and a storage that holds
\* of every entity the alive flag, and its position and velocity on the sweep
\* axis.

ListPositions == {0, 16}

\* The most Engine::kill calls the hooks of one frame make.
MaxKills == 2
ListVelocities == {0, 8}

\* World::spawn for the entities 1..NumEnts, each pushed to the list.
ListWorld(pos, vel) ==
    [entities |-> [k \in 1..NumEnts |-> k],
     alloced |-> NumEnts,
     storage |-> [e \in Ents |-> [alive |-> TRUE, pos |-> pos[e], vel |-> vel[e]]]]

\* World::get_nth: n counts from 0.
get_nth(w, n) == w.entities[n + 1]

\* World::get and get_mut return the entity if it is valid: alive, with the
\* id of the reference.
is_valid(w, ent) == w.storage[ent].alive

\* Vec::swap_remove: the last element takes the place of the one removed.
vec_swap_remove(list, n) ==
    IF n + 1 = Len(list) THEN SubSeq(list, 1, Len(list) - 1)
    ELSE [k \in 1..(Len(list) - 1) |-> IF k = n + 1 THEN list[Len(list)] ELSE list[k]]

\* World::swap_remove
swap_remove(w, n) ==
    [w EXCEPT !.entities = vec_swap_remove(@, n), !.alloced = @ - 1]

\* Engine::entity_base_update on the sweep axis: the velocity is integrated
\* over a tick of 1, without gravity, friction and tiles.
list_base_update(w, ent) ==
    IF ~is_valid(w, ent) THEN w
    ELSE [w EXCEPT !.storage[ent].pos = @ + w.storage[ent].vel]

\* The removal at the end of a turn of the loop of entities_update.
remove_if_dead(w, ent, n) ==
    IF ~w.storage[ent].alive THEN swap_remove(w, n) ELSE w

\* World::sort_entities_for_sweep
list_sort(w) ==
    [w EXCEPT !.entities =
        insertion_sort_by_key(@, [e \in Ents |-> as_usize(w.storage[e].pos * Unit)])]

\* Engine::kill: the command is added to the queue.
engine_kill(cmds, target) ==
    IF target = 0 THEN cmds ELSE Append(cmds, [cmd |-> "KillEntity", ent |-> target])

\* Engine::handle_commands for the KillEntity commands of the queue.
RECURSIVE list_handle_commands(_, _)
list_handle_commands(w, cmds) ==
    IF cmds = <<>> THEN w
    ELSE list_handle_commands(
             IF is_valid(w, Head(cmds).ent)
             THEN [w EXCEPT !.storage[Head(cmds).ent].alive = FALSE]
             ELSE w,
             Tail(cmds))

\* The entry of the log of the frame for a step made for the entity ent.
Step(name, ent) == [step |-> name, ent |-> ent]

\* Engine::update up to the loop of entities_update.
EngineUpdate ==
    /\ pc = "idle"
    /\ frame < MaxFrames
    /\ pc' = "update"
    /\ frame' = frame + 1
    /\ i' = 0
    /\ snapshot' = {world.entities[k] : k \in 1..world.alloced}
    /\ phase_log' = <<>>
    /\ UNCHANGED <<world, commands, collision_set, eng, map, updated, j, max_pos,
                   drain, added, dispatched, invoked, found, resolved, pre, last,
                   call>>

\* entities_update, one turn of its loop for the entity at index i: the
\* update hook (user code, which may call Engine::kill on target),
\* entity_base_update, the post_update hook, and the removal of the entity
\* if it is not alive.
EntitiesUpdateTurn(target) ==
    /\ pc = "update"
    /\ i < world.alloced
    /\ target # 0 => Len(commands) < MaxKills
    /\ \E ent \in {get_nth(world, i)} :
           /\ world' = remove_if_dead(list_base_update(world, ent), ent, i)
           /\ phase_log' = phase_log \o <<Step("update", ent),
                                           Step("entity_base_update", ent),
                                           Step("post_update", ent)>>
    /\ commands' = engine_kill(commands, target)
    /\ i' = i + 1
    /\ UNCHANGED <<collision_set, eng, map, pc, snapshot, updated, j, max_pos, drain,
                   frame, added, dispatched, invoked, found, resolved, pre, last,
                   call>>

\* entities_update after its loop: the list is sorted for the sweep. The key
\* function unwraps World::get, which panics for an entity that is not valid.
EntitiesSort ==
    /\ pc = "update"
    /\ i >= world.alloced
    /\ IF \A k \in 1..Len(world.entities) : is_valid(world, world.entities[k])
       THEN /\ world' = list_sort(world)
            /\ pc' = "dispatch"
            /\ phase_log' = Append(phase_log, Step("sort", 0))
       ELSE /\ pc' = "panic"
            /\ UNCHANGED <<world, phase_log>>
    /\ UNCHANGED <<commands, collision_set, eng, map, snapshot, updated, i, j, max_pos,
                   drain, frame, added, dispatched, invoked, found, resolved, pre,
                   last, call>>

\* Engine::update after the scene update: handle_commands.
EngineCommands ==
    /\ pc = "dispatch"
    /\ world' = list_handle_commands(world, commands)
    /\ commands' = <<>>
    /\ pc' = "idle"
    /\ UNCHANGED <<collision_set, eng, map, snapshot, updated, i, j, max_pos, drain,
                   frame, added, dispatched, invoked, phase_log, found, resolved, pre,
                   last, call>>

\* The state after the scene has spawned its entities.
InitEngine ==
    /\ \E pos \in [Ents -> ListPositions], vel \in [Ents -> ListVelocities] :
           world = ListWorld(pos, vel)
    /\ commands = <<>>
    /\ collision_set = <<>>
    /\ eng = Engine("X")
    /\ map = OpenMap
    /\ pc = "idle"
    /\ snapshot = {}
    /\ updated = {}
    /\ i = 0
    /\ j = 0
    /\ max_pos = 0
    /\ drain = <<>>
    /\ frame = 0
    /\ added = 0
    /\ dispatched = <<>>
    /\ invoked = {}
    /\ phase_log = <<>>
    /\ found = {}
    /\ resolved = {}
    /\ pre = Before(EmptyWorld, 0)
    /\ last = NoLast
    /\ call = NoCall

NextEngine ==
    \/ EngineUpdate
    \/ \E target \in 0..NumEnts : EntitiesUpdateTurn(target)
    \/ EntitiesSort
    \/ EngineCommands

SpecEngine == InitEngine /\ [][NextEngine]_vars

\* The centres and half sizes given to calc_bounds.
BoundsCentres == -3..3
BoundsHalfSizes == {Vec2(2, 1), Vec2(1, 1), Vec2(1, 3)}

\* User code calls calc_bounds at a right angle, once.
CalcBounds(pos, half_size, angle) ==
    /\ pc = "idle"
    /\ call = NoCall
    /\ call' = [op |-> "calc_bounds", ents |-> <<>>, result |-> "ok",
                accessors |-> <<>>,
                args |-> [pos |-> pos, half_size |-> half_size, angle |-> angle],
                rect |-> calc_bounds(pos, half_size, angle)]
    /\ UNCHANGED <<world, commands, collision_set, eng, map, pc, snapshot, updated,
                   sweep_vars, drain, frame, added, dispatched, invoked, phase_log,
                   found, resolved, pre, last>>

NextBounds ==
    /\ call = NoCall
    /\ \E x, y \in BoundsCentres, half_size \in BoundsHalfSizes,
          angle \in RightAngles :
           CalcBounds(Vec2(x, y), half_size, angle)

SpecBounds == Init /\ [][NextBounds]_vars

\* The lists of values of a length up to MaxLen.
SortLists == UNION {[1..n -> SortValues] : n \in 0..MaxLen}

\* The rosters of distinct entities, and the keys of the entities.
SortRosters == {r \in UNION {[1..n -> Ents] : n \in 0..NumEnts} :
                   \A a, b \in 1..Len(r) : a # b => r[a] # r[b]}
SortKeys == [Ents -> 0..1]

\* User code calls insertion_sort, once.
InsertionSort(list) ==
    /\ pc = "idle"
    /\ call = NoCall
    /\ call' = [op |-> "insertion_sort", ents |-> <<>>, result |-> "ok",
                accessors |-> <<>>, args |-> [list |-> list],
                out |-> insertion_sort(list)]
    /\ UNCHANGED <<world, commands, collision_set, eng, map, pc, snapshot, updated,
                   sweep_vars, drain, frame, added, dispatched, invoked, phase_log,
                   found, resolved, pre, last>>

\* User code calls insertion_sort_by_key on a roster with the keys K, once.
InsertionSortByKey(list, K) ==
    /\ pc = "idle"
    /\ call = NoCall
    /\ call' = [op |-> "insertion_sort_by_key", ents |-> <<>>, result |-> "ok",
                accessors |-> <<>>, args |-> [list |-> list, keys |-> K],
                out |-> insertion_sort_by_key(list, K)]
    /\ UNCHANGED <<world, commands, collision_set, eng, map, pc, snapshot, updated,
                   sweep_vars, drain, frame, added, dispatched, invoked, phase_log,
                   found, resolved, pre, last>>

NextSort ==
    /\ call = NoCall
    /\ \/ \E list \in SortLists : InsertionSort(list)
       \/ \E list \in SortRosters, K \in SortKeys : InsertionSortByKey(list, K)

SpecSort == Init /\ [][NextSort]_vars

\* --------------------------------------------------- sliding on the floor

\* One world-colliding body 8 sub-units wide, without gravity, friction and
\* restitution, above or beside the solid tile of FloorMap, with a velocity
\* that may take it into the tile.
InitSlide ==
    \E l \in {P_LITE, P_PASSIVE, P_ACTIVE}, x0 \in {8, 20, 24}, y0 \in {20, 24, 28},
       vx \in {-4, 0, 4}, vy \in {0, 4, 8} :
        InitWith(SpawnAll(1,
                          <<MkTransform(Vec2(x0, y0), Vec2(8, 8))>>,
                          <<[MkPhysics(l, 1, {}, {}) EXCEPT !.vel = Vec2(vx, vy)]>>),
                 RosterOf(1), Engine("X"), FloorMap)

\* The update phase of one frame.
NextUpdate ==
    \/ BeginFrame
    \/ \E ent \in Ents : UpdateEntity(ent)

SpecSlide == InitSlide /\ [][NextUpdate]_vars

\* ------------------------------------------------ adding to the roster

\* User code before the first frame: CollisionSet::add.
RosterAdd(ent) ==
    /\ pc = "idle"
    /\ frame = 0
    /\ Len(collision_set) < MaxLen
    /\ collision_set' = collision_set_add(collision_set, ent)
    /\ call' = [op |-> "add", ents |-> <<>>, result |-> "ok", accessors |-> <<>>,
                args |-> [ent |-> ent]]
    /\ UNCHANGED <<world, commands, eng, map, pc, snapshot, updated, sweep_vars, drain,
                   frame, added, dispatched, invoked, phase_log, found, resolved, pre,
                   last>>

\* User code before the first frame: CollisionSet::remove.
RosterRemove(ent) ==
    /\ pc = "idle"
    /\ frame = 0
    /\ collision_set' = collision_set_remove(collision_set, ent)
    /\ call' = [op |-> "remove", ents |-> <<>>, result |-> "ok", accessors |-> <<>>,
                args |-> [ent |-> ent]]
    /\ UNCHANGED <<world, commands, eng, map, pc, snapshot, updated, sweep_vars, drain,
                   frame, added, dispatched, invoked, phase_log, found, resolved, pre,
                   last>>

\* NumEnts active bodies 8 sub-units wide, 16 sub-units apart, none of them on
\* the roster yet.
InitRoster ==
    InitWith(SpawnAll(NumEnts,
                      [e \in Ents |-> MkTransform(Vec2(16 * e, 8), Vec2(8, 8))],
                      [e \in Ents |-> MkPhysics(P_ACTIVE, 1, {}, {})]),
             <<>>, Engine("X"), OpenMap)

NextRoster ==
    \/ \E ent \in Ents : RosterAdd(ent)
    \/ \E ent \in Ents : RosterRemove(ent)
    \/ NextCollide

SpecRoster == InitRoster /\ [][NextRoster]_vars

\* ---------------------------------------------------------- frame ordering

PhaseRank(p) ==
    CASE p = "update" -> 1
      [] p = "sort" -> 2
      [] p = "sweep" -> 3
      [] OTHER -> 4

InLog(p) == \E k \in 1..Len(phase_log) : phase_log[k] = p

\* C3: within one frame the phases run in a fixed order: the update hook,
\* entity_base_update and post_update hook of every entity are done before
\* the roster is sorted, the sort is done before the first pair is swept, and
\* no command is dispatched before the sweep has gone through all pairs.
C3_PhaseOrder ==
    /\ \A k, l \in 1..Len(phase_log) :
           k < l => PhaseRank(phase_log[k]) < PhaseRank(phase_log[l])
    /\ InLog("sort") => updated = snapshot
    /\ InLog("sweep") => InLog("sort")
    /\ InLog("dispatch") => (InLog("sort") /\ j = 0 /\ i > Len(collision_set))
    /\ pc \in {"update", "sweep"} => drain = <<>>

C3_Witness ==
    /\ phase_log = <<"update", "sort", "sweep", "dispatch">>
    /\ Cardinality(snapshot) = 2
    /\ found # {}

\* C4: during the sweep no entity callback is invoked directly; the touch and
\* collide intents of an overlapping pair are only appended to the command
\* queue and their callbacks run when the queue is drained after the sweep.
C4_NoHookDuringSweep ==
    \A x \in invoked : x[1] \in {"touch", "collide"} => x[2] = "dispatch"

\* The components of an entity of the store are still there after the step.
Kept(ent) ==
    /\ ent \in world'.entities
    /\ world'.transform[ent].has = world.transform[ent].has
    /\ world'.physics[ent].has = world.physics[ent].has
    /\ world'.hooks[ent].has = world.hooks[ent].has
    /\ world'.health[ent].has = world.health[ent].has

\* C5: a kill request never removes an entity while the frame is updating or
\* sweeping: the entity and its components stay in the store until
\* handle_commands dispatches the KillEnt command naming it.
C5_KillDeferred ==
    [][\A ent \in world.entities :
           \/ Kept(ent)
           \/ /\ pc = "dispatch"
              /\ drain # <<>>
              /\ Head(drain).kind = "KillEnt"
              /\ Head(drain).ent = ent]_vars

C5_Witness ==
    /\ pc = "sweep"
    /\ j # 0
    /\ \E k \in 1..Len(commands) :
           commands[k].kind = "KillEnt" /\ commands[k].ent \in world.entities

\* C6: a roster entity that lacks a Physics or a Transform component when
\* the sweep reaches it is skipped silently; the frame never panics.
C6_NoPanic == pc # "panic"

\* C8: dispatching a command whose entity is no longer in the store fails
\* soft: handle_command returns an error, nothing panics, the store is left
\* as it was, and the loop goes on with the remaining commands.
C8_DeadHandleFailsSoft ==
    [][(pc = "dispatch" /\ drain # <<>> /\ ~world_get_ok(world, Head(drain).ent))
           => /\ world' = world
              /\ collision_set' = collision_set
              /\ pc' = "dispatch"
              /\ drain' = Tail(drain)
              /\ last'.result = "err"]_vars

C8_Witness ==
    /\ pc = "dispatch"
    /\ last.dead
    /\ last.result = "err"
    /\ drain # <<>>
    /\ \E k \in 1..Len(dispatched) : dispatched[k] < last.id

\* The ids of the commands of a queue, in order.
Ids(q) == [k \in 1..Len(q) |-> q[k].id]

\* Every command ever added is, in the order of the adds, first among the
\* dispatched ones, then among those taken by the running drain, then in the
\* buffer.
InAddOrder == dispatched \o Ids(drain) \o Ids(commands) = [k \in 1..added |-> k]

\* C9: every command added is dispatched exactly once and in the order of the
\* adds; a drain takes all the commands added before it, and a command added
\* while the drain is dispatched stays in the buffer for the next drain.
C9_FifoExactlyOnce ==
    [][/\ InAddOrder'
       /\ (pc = "sweep" /\ pc' = "dispatch") => (drain' = commands /\ commands' = <<>>)
       /\ (pc = "dispatch" /\ pc' = "dispatch") =>
              /\ drain' = Tail(drain)
              /\ dispatched' = Append(dispatched, Head(drain).id)
              /\ \E q \in {<<>>} \cup {SubSeq(commands', Len(commands) + 1,
                                              Len(commands'))} :
                     commands' = commands \o q
       /\ (pc = "dispatch" /\ pc' = "idle") => drain = <<>>]_vars

C9_Witness ==
    /\ pc = "dispatch"
    /\ frame = 2
    /\ Len(dispatched) >= 2
    /\ drain # <<>>
    /\ commands # <<>>

\* ------------------------------------------------------------- broad phase

\* The unordered pairs of roster entities whose bounds touch, by the
\* all-pairs test.
BruteForcePairs ==
    {{collision_set[k], collision_set[l]} :
        <<k, l>> \in {kl \in (1..Len(collision_set)) \X (1..Len(collision_set)) :
                        /\ kl[1] < kl[2]
                        /\ has_transform(world, collision_set[kl[1]])
                        /\ has_transform(world, collision_set[kl[2]])
                        /\ is_touching(bounds(world.transform[collision_set[kl[1]]]),
                                       bounds(world.transform[collision_set[kl[2]]]))}}

\* C1: for roster entities that all pass the filter of the sweep, the pairs
\* the sweep hands to the overlap check and finds touching are exactly the
\* pairs whose bounds touch in the all-pairs test; sort and prune drop none.
C1_SweepFindsAllPairs == SweepDone => found = BruteForcePairs

\* ---------------------------------------------------------------- resolver

\* |v|^2 of an overlap result, 0 for no overlap.
Depth2(o) == IF o.some THEN o.v.x * o.v.x + o.v.y * o.v.y ELSE 0

\* The overlap of the resolved pair before and after resolve_collision.
OverlapBefore(p) == calc_ent_overlap(pre, p[1], p[2])
OverlapAfter(p) == calc_ent_overlap(world, p[1], p[2])

\* A body of the pair hit a tile while it was moved apart.
TileHit == \E k \in 1..Len(commands) : commands[k].traced

C7_DuplicateRejected ==
    /\ (call.op # "none" /\ call.ents[1] = call.ents[2]) => call.result # "ok"
    /\ \A k, l \in 1..Len(call.accessors) :
           k # l => call.accessors[k] # call.accessors[l]

\* -------------------------------------------------------------------- gate

AtLeastLite(level) == level \in {P_LITE, P_PASSIVE, P_ACTIVE, P_FIXED}
ActiveOrFixed(level) == level \in {P_ACTIVE, P_FIXED}

\* C10: a pair that reaches the narrow phase with an overlap is given to
\* resolve_collision if and only if both entities are at least LITE, one of
\* them is ACTIVE or FIXED, and their masses add up to more than 0.
C10_ResolveGate ==
    \A a, b \in world.entities :
        ({a, b} \in found /\ a # b) =>
            ((<<a, b>> \in resolved \/ <<b, a>> \in resolved)
                 <=> /\ AtLeastLite(world.physics[a].physics)
                     /\ AtLeastLite(world.physics[b].physics)
                     /\ \/ ActiveOrFixed(world.physics[a].physics)
                        \/ ActiveOrFixed(world.physics[b].physics)
                     /\ world.physics[a].mass + world.physics[b].mass > 0)

C10_Witness ==
    /\ resolved = {<<2, 1>>}
    /\ world.physics[1].physics = P_LITE
    /\ world.physics[2].physics = P_FIXED
    /\ world.physics[1].mass = 0

\* ------------------------------------------------------------- move shares

\* Level s against level w is a collision of a strong body with a weak one:
\* ACTIVE against LITE, or FIXED against anything but FIXED.
StrongWeak(s, w) == (s = P_ACTIVE /\ w = P_LITE) \/ (s = P_FIXED /\ w # P_FIXED)

\* Entity e has the position and the velocity it had before the last
\* resolve_collision.
Untouched(e) ==
    /\ world.transform[e].pos = pre.transform[e].pos
    /\ world.physics[e].vel = pre.physics[e].vel

\* The shares resolve_collision gave to the resolved pair p.
SharesOf(p) == move_shares(pre.physics[p[1]], pre.physics[p[2]])

\* C11: in ACTIVE vs. LITE and FIXED vs. non-FIXED collisions the weak entity
\* gets move share 1 and the strong one share 0, and resolve_collision leaves
\* the position and the velocity of the strong one unchanged, whether the
\* strong one is passed as a or as b.
C11_OnlyWeakMoves ==
    \A p \in resolved :
        /\ StrongWeak(pre.physics[p[1]].physics, pre.physics[p[2]].physics) =>
               /\ SharesOf(p).a = 0
               /\ SharesOf(p).b = SharesOf(p).den
               /\ Untouched(p[1])
        /\ StrongWeak(pre.physics[p[2]].physics, pre.physics[p[1]].physics) =>
               /\ SharesOf(p).b = 0
               /\ SharesOf(p).a = SharesOf(p).den
               /\ Untouched(p[2])

C11_Witness ==
    \E p \in resolved :
        /\ pre.physics[p[1]].physics = P_ACTIVE
        /\ pre.physics[p[2]].physics = P_FIXED
        /\ pre.physics[p[2]].vel.x # 0
        /\ world.transform[p[1]].pos # pre.transform[p[1]].pos
        /\ world.physics[p[1]].vel # pre.physics[p[1]].vel

\* ------------------------------------------------------------- both moved

\* The resolved pair p is ACTIVE vs. ACTIVE or ACTIVE vs. PASSIVE.
ActivePair(p) ==
    /\ {pre.physics[p[1]].physics, pre.physics[p[2]].physics} \subseteq
           {P_ACTIVE, P_PASSIVE}
    /\ P_ACTIVE \in {pre.physics[p[1]].physics, pre.physics[p[2]].physics}

\* The axis on which resolve_collision separated the resolved pair p.
AxisOf(p) == resolve_axis(OverlapBefore(p).v)

\* The entity of the resolved pair p that resolve_collision passed as the
\* top one, or the left one, and the other one.
FirstOf(p) ==
    IF AxisOf(p) = "x"
    THEN (IF OverlapBefore(p).v.x > 0 THEN p[1] ELSE p[2])
    ELSE (IF OverlapBefore(p).v.y > 0 THEN p[1] ELSE p[2])
SecondOf(p) == IF FirstOf(p) = p[1] THEN p[2] ELSE p[1]

\* The share of entity e of the resolved pair p, over SharesOf(p).den.
ShareOf(p, e) == IF e = p[1] THEN SharesOf(p).a ELSE SharesOf(p).b

\* The pair p was separated on y with its bottom entity on the ground and a
\* top entity that had a share of the move.
Grounded(p) ==
    /\ AxisOf(p) = "y"
    /\ pre.physics[SecondOf(p)].on_ground
    /\ ShareOf(p, FirstOf(p)) > 0

\* resolve_collision changed the position of e.
Moved(e) == world.transform[e].pos # pre.transform[e].pos

\* A tile of the collision map stopped e while resolve_collision moved it.
HitTile(e) ==
    \E k \in 1..Len(commands) :
        commands[k].traced /\ commands[k].ent = e /\ commands[k].id > pre.added

C13_SharesInRange ==
    \A p \in resolved :
        /\ SharesOf(p).den > 0
        /\ 0 <= SharesOf(p).a /\ SharesOf(p).a <= SharesOf(p).den
        /\ 0 <= SharesOf(p).b /\ SharesOf(p).b <= SharesOf(p).den
        /\ SharesOf(p).a + SharesOf(p).b = SharesOf(p).den

\* ------------------------------------------------------ split by the mass

\* How far resolve_collision displaced e.
Displaced(e) == VSub(world.transform[e].pos, pre.transform[e].pos)

TouchedWith(b) ==
    \E k \in 1..Len(commands) : commands[k].kind = "KillEnt" /\ commands[k].ent = b

\* check_against of a and group of b share a bit.
ChecksAgainst(a, b) ==
    (world.physics[a].check_against \cap world.physics[b].group) # {}

\* C15: for every pair the sweep finds overlapping, the touch hook of each
\* of the two entities is invoked with the other one if and only if the
\* check_against of the one and the group of the other share a bit; each
\* direction on its own, whatever the levels and the masses are.
C15_TouchByMask ==
    \A a, b \in world.entities :
        (a # b /\ {a, b} \in found) =>
            (TouchedWith(b) <=> (ChecksAgainst(a, b) /\ world.hooks[a].has))

C15_Witness ==
    /\ pc = "sweep"
    /\ found = {{1, 2}}
    /\ collision_set = <<1, 2>>
    /\ world.physics[1].physics = P_MOVE
    /\ world.physics[2].physics = P_NONE
    /\ ChecksAgainst(2, 1)
    /\ ~ChecksAgainst(1, 2)
    /\ TouchedWith(1)
    /\ ~TouchedWith(2)

\* ------------------------------------------------------------ SAT and AABB

\* The interiors of the two rectangles of the last calc_overlap call overlap.
Overlapping ==
    /\ call.op = "calc_overlap"
    /\ Abs(call.args[2].pos.x - call.args[1].pos.x)
           < call.args[1].half_size.x + call.args[2].half_size.x
    /\ Abs(call.args[2].pos.y - call.args[1].pos.y)
           < call.args[1].half_size.y + call.args[2].half_size.y

\* C16: for two overlapping rectangles at angle 0, sat_collision_overlap and
\* the right-angle branch of calc_overlap return the same overlap vector.
C16_SatEqualsAabb == Overlapping => call.slow = call.fast

\* ------------------------------------------------------------------ trace

\* The last call was a trace.
Traced == call.op = "trace"

\* The trace of the last call reports no hit over its whole length.
NoHit == call.t.tile = 0 /\ call.t.length = Frac(1, 1)

\* C17: on a collision map without a solid tile, trace returns no hit,
\* length 1 and the position start + v, for every start, displacement and size.
C17_OpenMapNoHit ==
    (Traced /\ call.args.map.solid = {}) =>
        /\ NoHit
        /\ call.t.pos = VAdd(call.args.from_center, call.args.vel)

C17_Witness ==
    /\ Traced
    /\ call.args.map.solid = {}
    /\ call.args.from_center = Vec2(8, 8)
    /\ call.args.vel = Vec2(40, -16)
    /\ call.args.size = Vec2(8, 24)
    /\ call.t.pos = Vec2(48, -8)


\* C19: for a zero displacement, and for a shape of size (0, 0) with any
\* displacement, trace returns no hit and length 1 on every collision map,
\* and for a zero displacement the position returned is the start position.
C19_DegenerateNoHit ==
    (Traced /\ (call.args.vel = VZero \/ call.args.size = VZero)) =>
        /\ NoHit
        /\ (call.args.vel = VZero => call.t.pos = call.args.from_center)


\* The corner of least coordinates of the traced shape, at the start and at
\* the position returned.
TraceFrom == VSub(call.args.from_center, half_of(call.args.size))
TraceEnd == VSub(call.t.pos, half_of(call.args.size))

OtherAxis(a) == IF a = "x" THEN "y" ELSE "x"
TileIndex(tl, a) == IF a = "x" THEN tl[1] ELSE tl[2]

\* The two edges of the tile tl on the axis a.
TileLow(tl, a) == TileIndex(tl, a) * call.args.map.tile_size
TileHigh(tl, a) == (TileIndex(tl, a) + 1) * call.args.map.tile_size

\* The gap on the axis a between the shape's leading edge and the near edge
\* of the tile tl that lies ahead of it.
GapTo(tl, a) ==
    IF call.args.vel[a] > 0
    THEN TileLow(tl, a) - (TraceFrom[a] + call.args.size[a])
    ELSE TraceFrom[a] - TileHigh(tl, a)

\* The shape moves along the axis a only, the tile tl lies ahead of it in its
\* path, and the displacement reaches or exceeds the gap.
Toward(tl, a) ==
    /\ call.args.vel[a] # 0
    /\ call.args.vel[OtherAxis(a)] = 0
    /\ TraceFrom[OtherAxis(a)] < TileHigh(tl, OtherAxis(a))
    /\ TraceFrom[OtherAxis(a)] + call.args.size[OtherAxis(a)] > TileLow(tl, OtherAxis(a))
    /\ GapTo(tl, a) >= 0
    /\ Abs(call.args.vel[a]) >= GapTo(tl, a)

\* The leading edge of the shape at the returned position lies on the near
\* edge of the tile tl.
Flush(tl, a) ==
    IF call.args.vel[a] > 0
    THEN TraceEnd[a] + call.args.size[a] = TileLow(tl, a)
    ELSE TraceEnd[a] = TileHigh(tl, a)

\* C18: a shape that overlaps no solid tile and moves straight toward a single
\* solid tile by at least the gap between them gets a length in [0, 1] and a
\* position whose leading edge lies exactly on the near edge of the tile.
C18_LandsFlush ==
    (Traced /\ call.args.size.x > 0 /\ call.args.size.y > 0) =>
        \A tl \in call.args.map.solid, a \in {"x", "y"} :
            Toward(tl, a) =>
                /\ ~FracLt(call.t.length, Frac(0, 1))
                /\ ~FracGt(call.t.length, Frac(1, 1))
                /\ Flush(tl, a)

C18_Witness ==
    /\ Traced
    /\ call.args.size = Vec2(8, 24)
    /\ Toward(<<1, 1>>, "x")
    /\ call.args.vel.x > GapTo(<<1, 1>>, "x")
    /\ GapTo(<<1, 1>>, "x") > 0
    /\ call.t.tile = 1
    /\ Flush(<<1, 1>>, "x")


\* --------------------------------------------------- Engine::entities_update

\* The number of entries of the log that are the step name for the entity ent.
StepCount(name, ent) ==
    Cardinality({k \in 1..Len(phase_log) : phase_log[k] = Step(name, ent)})

\* The sort of the frame is made.
Sorted == \E k \in 1..Len(phase_log) : phase_log[k].step = "sort"

\* C20: in every frame the update hook, entity_base_update and the
\* post_update hook run exactly once for every entity that is in the list and
\* alive when the frame starts, also in a frame in which an entity is removed
\* from the list, and all of them run before the sort.
C20_OncePerEntity ==
    /\ (pc = "dispatch" /\ Sorted) =>
           \A ent \in snapshot :
               is_valid(world, ent) =>
                   \A name \in {"update", "entity_base_update", "post_update"} :
                       StepCount(name, ent) = 1
    /\ \A k \in 1..Len(phase_log) :
           phase_log[k].step = "sort" => k = Len(phase_log)


\* ----------------------------------------------------- roster and lifecycle

\* C21: after any sequence of spawns, kill commands and frames every handle
\* of the roster refers to an entity that exists in the entity store.
C21_RosterInStore ==
    \A k \in 1..Len(collision_set) : collision_set[k] \in world.entities

\* C27: when the dispatcher handles a KillEnt command for an entity that is
\* in the store, the entity is not in the store afterwards, with or without
\* Hooks and Health components and whatever its kill hook returns.
C27_KillDespawns ==
    [][(/\ pc = "dispatch"
        /\ drain # <<>>
        /\ Head(drain).kind = "KillEnt"
        /\ world_get_ok(world, Head(drain).ent))
           => Head(drain).ent \notin world'.entities]_vars


\* ------------------------------------------------------------ calc_bounds

\* The rectangle of half extents hx, hy around the centre of the last call.
Around(hx, hy) ==
    [min |-> Vec2(call.args.pos.x - hx, call.args.pos.y - hy),
     max |-> Vec2(call.args.pos.x + hx, call.args.pos.y + hy)]

\* C22: at 0 and at a half turn in either direction calc_bounds is the
\* rectangle of the half extents around the centre, at a quarter turn in
\* either direction the one of the swapped half extents: for half_size
\* (2, 1) at the origin min = (-2, -1), max = (2, 1) at 0 degrees and
\* min = (-1, -2), max = (1, 2) at 90 degrees.
C22_BoundsAtRightAngles ==
    call.op = "calc_bounds" =>
        /\ call.args.angle \in {0, 2, -2} =>
               call.rect = Around(call.args.half_size.x, call.args.half_size.y)
        /\ call.args.angle \in {1, -1} =>
               call.rect = Around(call.args.half_size.y, call.args.half_size.x)

C22_Witness ==
    /\ call.op = "calc_bounds"
    /\ call.args.pos = VZero
    /\ call.args.half_size = Vec2(2, 1)
    /\ call.args.angle = -1
    /\ call.rect = [min |-> Vec2(-1, -2), max |-> Vec2(1, 2)]


\* ------------------------------------------------------------------ sorts

\* How often the value v occurs in the list.
Occurs(list, v) == Cardinality({k \in 1..Len(list) : list[k] = v})

\* C23: insertion_sort returns what the sort of the standard library
\* returns: the non-decreasing list in which every value occurs as often as
\* in the input.
C23_SortsLikeStd ==
    call.op = "insertion_sort" =>
        /\ Len(call.out) = Len(call.args.list)
        /\ \A k \in 1..(Len(call.out) - 1) : call.out[k] <= call.out[k + 1]
        /\ \A v \in SortValues : Occurs(call.out, v) = Occurs(call.args.list, v)

C23_Witness ==
    /\ call.op = "insertion_sort"
    /\ call.args.list = <<2, 0, 2, 1>>
    /\ call.out = <<0, 1, 2, 2>>


\* The roster of the last call was sorted by its keys when it was given.
GivenSorted ==
    \A k \in 1..(Len(call.args.list) - 1) :
        call.args.keys[call.args.list[k]] <= call.args.keys[call.args.list[k + 1]]

\* C30: insertion_sort_by_key leaves a roster that is already sorted as it
\* is, so entities of equal keys keep their order.
C30_SortedStaysPut ==
    (call.op = "insertion_sort_by_key" /\ GivenSorted) => call.out = call.args.list


\* The bounds-min on the sweep axis of the roster entity at place k.
MinAt(k) == sweep_axis_get(eng.sweep_axis, bounds(world.transform[collision_set[k]]).min)

\* C24: after sort_entities_for_sweep the roster is in the order of the
\* bounds-min on the sweep axis, for negative, fractional and large
\* coordinates, the entities without a Transform last.
C24_RosterSorted ==
    (pc = "sweep" /\ i = 1 /\ j = 0) =>
        \A k, l \in 1..Len(collision_set) :
            k < l =>
                IF has_transform(world, collision_set[k])
                THEN has_transform(world, collision_set[l]) => MinAt(k) <= MinAt(l)
                ELSE ~has_transform(world, collision_set[l])


\* ------------------------------------------------------ axis of separation

\* resolve_collision reported to an entity of the resolved pair p, in its
\* last call, a collision with a normal along the axis a.
SeparatedOn(p, a) ==
    \E k \in 1..Len(commands) :
        /\ commands[k].kind = "Collide"
        /\ ~commands[k].traced
        /\ commands[k].id > pre.added
        /\ commands[k].ent \in {p[1], p[2]}
        /\ commands[k].normal[a] # 0

\* C25: resolve_collision separates the pair on the axis on which the
\* overlap vector has the larger magnitude: on y when |overlap.y| >
\* |overlap.x|, on x when |overlap.x| > |overlap.y|.
C25_LargerAxis ==
    \A p \in resolved :
        /\ Abs(OverlapBefore(p).v.y) > Abs(OverlapBefore(p).v.x) =>
               (SeparatedOn(p, "y") /\ ~SeparatedOn(p, "x"))
        /\ Abs(OverlapBefore(p).v.x) > Abs(OverlapBefore(p).v.y) =>
               (SeparatedOn(p, "x") /\ ~SeparatedOn(p, "y"))


\* ------------------------------------------------------------- tile hits

\* The normals of the tiles that stopped entity e in this frame.
HitNormals(e) ==
    {commands[k].normal : k \in {n \in 1..Len(commands) :
                                    commands[n].traced /\ commands[n].ent = e}}

\* C26: a world-colliding entity that hits a tile with normal n and does not
\* bounce keeps its velocity projected onto the tangent (-n.y, n.x): nothing
\* is left of it along the normal, and what it had along the tangent is kept.
C26_SlidesAlongTile ==
    \A e \in updated :
        \A n \in HitNormals(e) :
            Cardinality(HitNormals(e)) = 1 =>
                /\ VDot(world.physics[e].vel, n) = 0
                /\ VDot(world.physics[e].vel, Vec2(-n.y, n.x))
                       = VDot(pre.physics[e].vel, Vec2(-n.y, n.x))


\* ------------------------------------------------------- order in the roster

\* C28: an overlapping pair whose levels and masses pass the resolution gate
\* is handed to resolve_collision whichever of the two comes first in the
\* sorted roster.
C28_ResolvedInEitherOrder ==
    SweepDone =>
        \A a, b \in world.entities :
            (/\ a # b
             /\ calc_ent_overlap(pre, a, b).some
             /\ should_resolve(pre.physics[a], pre.physics[b]))
                => (<<a, b>> \in resolved \/ <<b, a>> \in resolved)


\* ------------------------------------------------------ handles of the roster

\* C29: after any sequence of CollisionSet::add and CollisionSet::remove
\* calls the roster holds each handle at most once, and after remove(e) it
\* holds no e; the sweep never finds an entity touching itself and never
\* gives one entity to resolve_collision as both a and b.
C29_EachHandleOnce ==
    /\ \A k, l \in 1..Len(collision_set) : k # l => collision_set[k] # collision_set[l]
    /\ call.op = "remove" =>
           \A k \in 1..Len(collision_set) : collision_set[k] # call.args.ent
    /\ \A p \in found : Cardinality(p) = 2
    /\ \A p \in resolved : p[1] # p[2]

====
